---------------------------- MODULE Spec2Model ----------------------------
(***************************************************************************)
(* A model of the comparison/scoring engine of the pronunciation scorer    *)
(* (src/user_processor/pronunciation-api).                                 *)
(*                                                                         *)
(* Conventions.                                                            *)
(*   - A word or a token text is a sequence of characters, each a string   *)
(*     ("apos" and "rsquo" name the two apostrophes).                      *)
(*   - A time is an integer number of milliseconds.                        *)
(*   - A float that the code obtains by one division of two integers is an *)
(*     exact rational <<n, d>> with d > 0 (LCS ratio, calibrated score).   *)
(*   - The floats of the acoustic comparison are fixed-point numbers with  *)
(*     three decimals (ONE = 1.0); division and square root round down.    *)
(***************************************************************************)
EXTENDS Integers, Sequences, FiniteSets, TLC

VARIABLES
    pc,      \* position of the call or of the scoring run
    args,    \* the arguments of the function under study
    ret,     \* what it returned (NoValue before the call)
    locals,  \* the local variables of analyze_pronunciation_pipeline
    webhook  \* the requests posted to the webhook, in order

run == <<locals, webhook>>

vars == <<pc, args, ret, run>>

NoValue == [none |-> TRUE]

\* no scoring run: the state of a call of one function
NoRun == locals = NoValue /\ webhook = <<>>

-----------------------------------------------------------------------------
(* Python builtins *)

Max(a, b) == IF a >= b THEN a ELSE b

Min(a, b) == IF a <= b THEN a ELSE b

Abs(a) == IF a < 0 THEN -a ELSE a

Range(s) == {s[i] : i \in DOMAIN s}

(* exact rationals <<n, d>>, d > 0 *)
RLe(p, q) == p[1] * q[2] <= q[1] * p[2]

RLt(p, q) == p[1] * q[2] < q[1] * p[2]

REq(p, q) == p[1] * q[2] = q[1] * p[2]

-----------------------------------------------------------------------------
(* text_similarity.py : characters *)

UpperCase == {"C", "H"}

Lower(ch) == CASE ch = "C" -> "c" [] ch = "H" -> "h" [] OTHER -> ch

\* str.replace: the typographic apostrophe "rsquo" becomes the ASCII one "apos"
UnifyApostrophe(ch) == IF ch = "rsquo" THEN "apos" ELSE ch

WhiteSpace == {" "}

\* the characters the class [^\w\s'] removes
Punctuation == {".", "!", "[", "]", "rsquo"}

MapSeq(s, Op(_)) == [i \in DOMAIN s |-> Op(s[i])]

RECURSIVE FilterSeq(_, _)
FilterSeq(s, keep) ==
    IF s = <<>> THEN <<>>
    ELSE IF Head(s) \in keep THEN <<Head(s)>> \o FilterSeq(Tail(s), keep)
    ELSE FilterSeq(Tail(s), keep)

\* re.sub(r"\s+", " ", text): every run of whitespace becomes one space
RECURSIVE CollapseSpaces(_)
CollapseSpaces(s) ==
    IF Len(s) < 2 THEN MapSeq(s, LAMBDA ch : IF ch \in WhiteSpace THEN " " ELSE ch)
    ELSE IF s[1] \in WhiteSpace /\ s[2] \in WhiteSpace THEN CollapseSpaces(Tail(s))
    ELSE <<IF s[1] \in WhiteSpace THEN " " ELSE s[1]>> \o CollapseSpaces(Tail(s))

RECURSIVE LStrip(_)
LStrip(s) == IF s # <<>> /\ Head(s) \in WhiteSpace THEN LStrip(Tail(s)) ELSE s

RECURSIVE RStrip(_)
RStrip(s) ==
    IF s # <<>> /\ s[Len(s)] \in WhiteSpace THEN RStrip(SubSeq(s, 1, Len(s) - 1)) ELSE s

\* str.strip()
Strip(s) == RStrip(LStrip(s))

\* str.split(): the maximal runs of non-whitespace characters, in order
RECURSIVE SplitFrom(_, _, _)
SplitFrom(s, i, cur) ==
    IF i > Len(s) THEN (IF cur = <<>> THEN <<>> ELSE <<cur>>)
    ELSE IF s[i] \in WhiteSpace
         THEN (IF cur = <<>> THEN <<>> ELSE <<cur>>) \o SplitFrom(s, i + 1, <<>>)
         ELSE SplitFrom(s, i + 1, Append(cur, s[i]))

Split(s) == SplitFrom(s, 1, <<>>)

normalize_and_tokenize(text) ==
    LET lowered  == MapSeq(text, Lower)
        replaced == MapSeq(lowered, UnifyApostrophe)
        kept     == FilterSeq(replaced, {ch \in Range(replaced) : ch \notin Punctuation})
        collapsed == CollapseSpaces(kept)
        stripped == Strip(collapsed)
    IN  Split(stripped)

\* '00:00:01,500' -> 1.5 s; a timestamp is [h, m, s, ms], the result is in ms
parse_time(time_str) ==
    time_str.h * 3600000 + time_str.m * 60000 + time_str.s * 1000 + time_str.ms

\* compute_char_lcs_ratio with one arm of the max dropped from the recurrence
compute_char_lcs_ratio_one_arm(a, b) ==
    LET m == Len(a)
        n == Len(b)
        dp[i \in 0 .. m, j \in 0 .. n] ==
            IF i = 0 \/ j = 0 THEN 0
            ELSE IF a[i] = b[j] THEN dp[i - 1, j - 1] + 1
            ELSE dp[i - 1, j]
    IN  IF Max(m, n) > 0 THEN <<dp[m, n], Max(m, n)>> ELSE <<0, 1>>

\* dp table of the longest common subsequence, then dp[m][n] / max(m, n)
compute_char_lcs_ratio(a, b) ==
    LET m == Len(a)
        n == Len(b)
        dp[i \in 0 .. m, j \in 0 .. n] ==
            IF i = 0 \/ j = 0 THEN 0
            ELSE IF a[i] = b[j] THEN dp[i - 1, j - 1] + 1
            ELSE Max(dp[i - 1, j], dp[i, j - 1])
    IN  IF Max(m, n) > 0 THEN <<dp[m, n], Max(m, n)>> ELSE <<0, 1>>

\* whisper.cpp JSON -> the word segments of every token that is not a control
\* token and is not blank; a token without 'p' gets confidence 0
RECURSIVE TokensToSegments(_)
TokensToSegments(tokens) ==
    IF tokens = <<>> THEN <<>>
    ELSE LET token == Head(tokens)
             rest  == TokensToSegments(Tail(tokens))
         IN  IF "text" \in DOMAIN token
                /\ ~(token.text # <<>> /\ Head(token.text) = "[")
                /\ Strip(token.text) # <<>>
             THEN <<[word       |-> Strip(token.text),
                     start_time |-> parse_time(token.timestamps.from),
                     end_time   |-> parse_time(token.timestamps.to),
                     confidence |-> IF "p" \in DOMAIN token THEN token.p ELSE 0]>>
                  \o rest
             ELSE rest

RECURSIVE SegmentsOfTranscription(_)
SegmentsOfTranscription(transcription) ==
    IF transcription = <<>> THEN <<>>
    ELSE TokensToSegments(IF "tokens" \in DOMAIN Head(transcription)
                          THEN Head(transcription).tokens ELSE <<>>)
         \o SegmentsOfTranscription(Tail(transcription))

parse_whisper_cpp_result(whisper_json) ==
    SegmentsOfTranscription(IF "transcription" \in DOMAIN whisper_json
                            THEN whisper_json.transcription ELSE <<>>)

\* normalize_segments_to_zero shifting the start times only
normalize_segments_to_zero_start_only(segments) ==
    IF segments = <<>> THEN segments
    ELSE LET offset == segments[1].start_time
         IN  [i \in DOMAIN segments |->
                 [segments[i] EXCEPT !.start_time = @ - offset]]

\* every segment's times minus the first segment's start_time
normalize_segments_to_zero(segments) ==
    IF segments = <<>> THEN segments
    ELSE LET offset == segments[1].start_time
         IN  [i \in DOMAIN segments |->
                 [segments[i] EXCEPT !.start_time = @ - offset,
                                     !.end_time   = @ - offset]]

FirstTokenOrEmpty(tokens) == IF tokens # <<>> THEN tokens[1] ELSE <<>>

word_match_with_normalization(ref_word, user_word) ==
    FirstTokenOrEmpty(normalize_and_tokenize(ref_word))
        = FirstTokenOrEmpty(normalize_and_tokenize(user_word))

\* LCS_THRESH = 0.6, as the rational 6/10
LCS_THRESH == <<6, 10>>

\* tol = 0.25 s and start_tol = 0.5 s, in ms
tol == 250

start_tol == 500

\* ratio >= 0.70, as the rational 70/100
RATIO_THRESH == <<70, 100>>

WindowOverlap(user, window_start, window_end) ==
    Min(window_end, user.end_time) - Max(window_start, user.start_time)

\* max(candidates, key = overlap): the first candidate of the largest key
BestCandidate(candidates, window_start, window_end) ==
    LET key(i) == WindowOverlap(candidates[i], window_start, window_end)
        best   == CHOOSE i \in DOMAIN candidates :
                      /\ \A j \in DOMAIN candidates : key(j) <= key(i)
                      /\ \A j \in 1 .. i - 1 : key(j) < key(i)
    IN  candidates[best]

\* the record of one reference span (one iteration of the loop)
AlignOne(ref, user_normalized) ==
    LET window_start == ref.start_time - tol
        window_end   == ref.end_time + tol
        candidates   == SelectSeq(user_normalized,
                            LAMBDA user : ~(user.end_time < window_start
                                            \/ user.start_time > window_end))
        best_user    == BestCandidate(candidates, window_start, window_end)
        lcs_sim      == IF word_match_with_normalization(ref.word, best_user.word)
                        THEN <<1, 1>>
                        ELSE compute_char_lcs_ratio(ref.word, best_user.word)
        start_ok     == Abs(best_user.start_time - ref.start_time) <= start_tol
        overlap      == WindowOverlap(best_user, window_start, window_end)
        ref_dur      == ref.end_time - ref.start_time
        ratio        == IF ref_dur # 0 THEN <<overlap, ref_dur>> ELSE <<0, 1>>
    IN  IF candidates # <<>>
        THEN IF RLt(lcs_sim, LCS_THRESH)
             THEN [word |-> ref.word, status |-> "fail", lcs_similarity |-> lcs_sim]
             ELSE [word |-> ref.word,
                   status |-> IF start_ok /\ RLe(RATIO_THRESH, ratio)
                              THEN "pass" ELSE "fail",
                   lcs_similarity |-> lcs_sim,
                   confidence |-> best_user.confidence]
        ELSE [word |-> ref.word, status |-> "fail",
              lcs_similarity |-> <<0, 1>>, confidence |-> 0]

score_text_alignment(reference_segments, user_whisper_json) ==
    LET user_segments   == parse_whisper_cpp_result(user_whisper_json)
        user_normalized == normalize_segments_to_zero(user_segments)
        ref_normalized  == normalize_segments_to_zero(reference_segments)
    IN  [i \in DOMAIN ref_normalized |-> AlignOne(ref_normalized[i], user_normalized)]

compare_texts(reference_segments, user_whisper_json) ==
    score_text_alignment(reference_segments, user_whisper_json)

-----------------------------------------------------------------------------
(* Inputs of the text aligner *)

cat      == <<"c", "a", "t">>
CatBang  == <<"C", "a", "t", "!">>
sp_cat   == <<" ", "c", "a", "t">>
dog      == <<"d", "o", "g">>
chats    == <<"c", "h", "a", "t", "s">>
hello    == <<"h", "e", "l", "l", "o">>
hallo    == <<"h", "a", "l", "l", "o">>
BEG      == <<"[", "B", "]">>

\* the timestamp string of a time in ms
TS(ms) == [h |-> 0, m |-> ms \div 60000, s |-> (ms % 60000) \div 1000, ms |-> ms % 1000]

Token(text, from, to, p) ==
    [text |-> text, timestamps |-> [from |-> TS(from), to |-> TS(to)], p |-> p]

TokenNoP(text, from, to) ==
    [text |-> text, timestamps |-> [from |-> TS(from), to |-> TS(to)]]

RefSpan(word, start, end) == [word |-> word, start_time |-> start, end_time |-> end]

MaxRefWords == 2

MaxUserTokens == 2

RefChoices ==
    {RefSpan(w, t[1], t[2]) : w \in {cat, CatBang},
                              t \in {<<0, 500>>, <<1000, 1500>>, <<0, 2000>>}}
    \cup {RefSpan(cat, 2000, 2000)}

TokenChoices ==
    {Token(sp_cat, 100, 450, 90), Token(sp_cat, 2000, 2500, 90),
     Token(dog, 0, 500, 50), TokenNoP(chats, 0, 500), Token(BEG, 0, 100, 100),
     Token(sp_cat, 500, 2000, 80), Token(sp_cat, 600, 2250, 80),
     Token(sp_cat, 250, 750, 70), Token(dog, 1000, 1500, 50),
     Token(sp_cat, 1000, 1500, 60)}

\* sequences of at most n elements of S
SeqsUpTo(S, n) == UNION {[1 .. k -> S] : k \in 0 .. n}

\* a WordSpan sequence is kept in time order
Chronological(segs) ==
    \A i \in 1 .. Len(segs) - 1 : segs[i].start_time < segs[i + 1].start_time

ChronologicalTokens(tokens) ==
    \A i \in 1 .. Len(tokens) - 1 :
        parse_time(tokens[i].timestamps.from) < parse_time(tokens[i + 1].timestamps.from)

ReferenceInputs == {r \in SeqsUpTo(RefChoices, MaxRefWords) : Chronological(r)}

WhisperInputs ==
    {[transcription |-> <<[tokens |-> t]>>] :
        t \in {u \in SeqsUpTo(TokenChoices, MaxUserTokens) : ChronologicalTokens(u)}}
    \cup {[transcription |-> <<>>]}

InitAlign ==
    /\ pc = "call"
    /\ args \in [reference_segments : ReferenceInputs, user_whisper_json : WhisperInputs]
    /\ ret = NoValue
    /\ NoRun

CallScoreTextAlignment ==
    /\ pc = "call"
    /\ ret' = score_text_alignment(args.reference_segments, args.user_whisper_json)
    /\ pc' = "done"
    /\ UNCHANGED <<args, run>>

NextAlign == CallScoreTextAlignment

SpecAlign == InitAlign /\ [][NextAlign]_vars

-----------------------------------------------------------------------------
(* Claims about the text aligner, checked under SpecAlign *)

\* the set of subsequences of a, as the set of index subsets read in order
RECURSIVE Pick(_, _, _)
Pick(a, idx, i) ==
    IF i > Len(a) THEN <<>>
    ELSE IF i \in idx THEN <<a[i]>> \o Pick(a, idx, i + 1)
    ELSE Pick(a, idx, i + 1)

Subsequences(a) == {Pick(a, idx, 1) : idx \in SUBSET (DOMAIN a)}

\* the length of a longest common subsequence, by its definition
LongestCommonLen(a, b) ==
    LET common == Subsequences(a) \cap Subsequences(b)
    IN  CHOOSE n \in 0 .. Len(a) :
            /\ \E c \in common : Len(c) = n
            /\ \A c \in common : Len(c) <= n

\* the three gates of the claim, for reference span ref and token tok
ClaimedLcsOk(ref, tok) ==
    \/ FirstTokenOrEmpty(normalize_and_tokenize(ref.word))
           = FirstTokenOrEmpty(normalize_and_tokenize(tok.word))
    \/ /\ Max(Len(ref.word), Len(tok.word)) > 0
       /\ 10 * LongestCommonLen(ref.word, tok.word)
              >= 6 * Max(Len(ref.word), Len(tok.word))

ClaimedGates(ref, tok) ==
    LET overlap == Min(ref.end_time + 250, tok.end_time)
                       - Max(ref.start_time - 250, tok.start_time)
        ref_dur == ref.end_time - ref.start_time
    IN  /\ ClaimedLcsOk(ref, tok)
        /\ Abs(tok.start_time - ref.start_time) <= 500
        /\ ref_dur > 0
        /\ 100 * overlap >= 70 * ref_dur

\* the claimed decision for every reference span, over the user tokens toks
AlignClaimHolds(toks) ==
    LET refs == normalize_segments_to_zero(args.reference_segments)
    IN  /\ Len(ret) = Len(refs)
        /\ \A i \in DOMAIN refs :
            LET ref   == refs[i]
                ov(k) == Min(ref.end_time + 250, toks[k].end_time)
                             - Max(ref.start_time - 250, toks[k].start_time)
                inter == {k \in DOMAIN toks :
                             /\ toks[k].end_time >= ref.start_time - 250
                             /\ toks[k].start_time <= ref.end_time + 250}
                most  == {k \in inter : \A j \in inter : ov(j) <= ov(k)}
            IN  /\ ret[i].status \in {"pass", "fail"}
                /\ ret[i].status = "pass" => \E k \in most : ClaimedGates(ref, toks[k])
                /\ (inter # {} /\ \A k \in most : ClaimedGates(ref, toks[k]))
                       => ret[i].status = "pass"
                /\ inter = {} =>
                       /\ ret[i].status = "fail"
                       /\ REq(ret[i].lcs_similarity, <<0, 1>>)
                       /\ "confidence" \in DOMAIN ret[i]
                       /\ ret[i].confidence = 0

\* C1: every reference span is marked pass if and only if some user token
\* intersects the window [ref.start - 0.25, ref.end + 0.25] and the token of
\* the largest overlap passes the three gates (LCS >= 0.6, start offset
\* <= 0.5 s, overlap / reference duration >= 0.70); with no intersecting
\* token the record is fail with similarity 0 and confidence 0.  The user
\* tokens are those of the recognized output, at their recognized times.
C1_PassIffGatesOnRecognizedTokens ==
    pc = "done" => AlignClaimHolds(parse_whisper_cpp_result(args.user_whisper_json))

\* The same decision rule, read over the tokens as the aligner sees them (after
\* its own shift of the user tokens to zero): this is what the code implements.
AlignDecisionOnShiftedTokens ==
    pc = "done" =>
        AlignClaimHolds(normalize_segments_to_zero(
                            parse_whisper_cpp_result(args.user_whisper_json)))

C2Input ==
    [reference_segments |-> <<RefSpan(cat, 0, 500)>>,
     user_whisper_json  |-> [transcription |->
                                <<[tokens |-> <<Token(sp_cat, 2000, 2500, 90)>>]>>]]

\* C2: reference cat [0.0, 0.5] against the single recognized token
\* cat [2.0, 2.5], which lies outside the window, gives status fail with
\* similarity 0.
C2_TokenOutsideWindowFails ==
    (pc = "done" /\ args = C2Input) =>
        /\ ret[1].status = "fail"
        /\ REq(ret[1].lcs_similarity, <<0, 1>>)

\* C9: every record of the aligner carries the four declared fields word,
\* status (pass or fail), lcsSimilarity and confidence, on every branch.
C9_EveryRecordHasFourFields ==
    pc = "done" =>
        \A i \in DOMAIN ret :
            /\ DOMAIN ret[i] = {"word", "status", "lcs_similarity", "confidence"}
            /\ ret[i].status \in {"pass", "fail"}

-----------------------------------------------------------------------------
(* compute_char_lcs_ratio as a function of two strings (SpecLCS) *)

MaxWordLen == 3

LcsWords == SeqsUpTo({"a", "b"}, MaxWordLen) \cup {hello, hallo}

InitLCS ==
    /\ pc = "call"
    /\ args \in [a : LcsWords, b : LcsWords]
    /\ ret = NoValue
    /\ NoRun

CallComputeCharLcsRatio ==
    /\ pc = "call"
    /\ ret' = compute_char_lcs_ratio(args.a, args.b)
    /\ pc' = "done"
    /\ UNCHANGED <<args, run>>

NextLCS == CallComputeCharLcsRatio

SpecLCS == InitLCS /\ [][NextLCS]_vars

\* C5: charLCSRatio(a, b) is the length of a longest common subsequence of a
\* and b divided by max(len(a), len(b)); it lies in [0, 1], is 0 for two
\* empty strings, 1 for (a, a) with a non-empty, symmetric, and 0.8 for
\* (hello, hallo).
C5_LcsRatio ==
    pc = "done" =>
        LET a == args.a
            b == args.b
        IN  /\ Max(Len(a), Len(b)) > 0 =>
                   REq(ret, <<LongestCommonLen(a, b), Max(Len(a), Len(b))>>)
            /\ RLe(<<0, 1>>, ret) /\ RLe(ret, <<1, 1>>)
            /\ (a = <<>> /\ b = <<>>) => REq(ret, <<0, 1>>)
            /\ (a = b /\ a # <<>>) => REq(ret, <<1, 1>>)
            /\ REq(ret, compute_char_lcs_ratio(b, a))
            /\ (a = hello /\ b = hallo) => REq(ret, <<8, 10>>)

C5_Witness ==
    pc = "done" /\ args.a = hello /\ args.b = hallo /\ REq(ret, <<4, 5>>)

-----------------------------------------------------------------------------
(* mfcc_similarity.py : calibration.  A similarity is a fixed-point number   *)
(* with three decimals; the score is the exact rational np.interp computes. *)

ONE == 1000

\* sim_points, in thousandths
sim_points == <<0, 20, 50, 80, 90, 100, 300, 400, 530, 1000>>

\* score_points with the anchors of 0.08 and 0.09 exchanged
score_points_swapped == <<0, 0, 40, 60, 50, 70, 80, 90, 100, 100>>

score_points == <<0, 0, 40, 50, 60, 70, 80, 90, 100, 100>>

\* np.interp(x, xp, fp): fp[1] left of xp, fp[last] right of it, and the chord
\* of the enclosing interval in between
interp(x, xp, fp) ==
    IF x <= xp[1] THEN <<fp[1], 1>>
    ELSE IF x >= xp[Len(xp)] THEN <<fp[Len(fp)], 1>>
    ELSE LET i == CHOOSE k \in 1 .. Len(xp) - 1 : xp[k] <= x /\ x < xp[k + 1]
         IN  <<fp[i] * (xp[i + 1] - xp[i]) + (fp[i + 1] - fp[i]) * (x - xp[i]),
               xp[i + 1] - xp[i]>>

continuous_score(similarity) == interp(similarity, sim_points, score_points)

CalibMargin == 50

CalibInputs == (0 - CalibMargin) .. (ONE + CalibMargin)

InitCalibrate ==
    /\ pc = "call"
    /\ args \in [similarity : CalibInputs]
    /\ ret = NoValue
    /\ NoRun

CallContinuousScore ==
    /\ pc = "call"
    /\ ret' = continuous_score(args.similarity)
    /\ pc' = "done"
    /\ UNCHANGED <<args, run>>

NextCalibrate == CallContinuousScore

SpecCalibrate == InitCalibrate /\ [][NextCalibrate]_vars

\* the anchors of the claim, <<similarity in thousandths, score>>
ClaimedAnchors ==
    <<<<0, 0>>, <<20, 0>>, <<50, 40>>, <<80, 50>>, <<90, 60>>, <<100, 70>>,
      <<300, 80>>, <<400, 90>>, <<530, 100>>, <<1000, 100>>>>

\* C4: calibrate is the piecewise-linear interpolation over the anchors, is
\* monotone non-decreasing, lies in [0, 100], maps 0.0 to 0 and 1.0 to 100,
\* maps 0.45 strictly between 90 and 100, and clamps inputs below 0 to 0 and
\* above 1 to 100.
C4_Calibrate ==
    pc = "done" =>
        LET x == args.similarity
        IN  /\ \A k \in 1 .. Len(ClaimedAnchors) - 1 :
                   LET p == ClaimedAnchors[k]
                       q == ClaimedAnchors[k + 1]
                   IN  (p[1] <= x /\ x <= q[1]) =>
                           ret[1] * (q[1] - p[1])
                               = ret[2] * (p[2] * (q[1] - p[1]) + (q[2] - p[2]) * (x - p[1]))
            /\ \A y \in CalibInputs : y <= x => RLe(continuous_score(y), ret)
            /\ RLe(<<0, 1>>, ret) /\ RLe(ret, <<100, 1>>)
            /\ x = 0 => REq(ret, <<0, 1>>)
            /\ x = ONE => REq(ret, <<100, 1>>)
            /\ x = 450 => RLt(<<90, 1>>, ret) /\ RLt(ret, <<100, 1>>)
            /\ x < 0 => REq(ret, <<0, 1>>)
            /\ x > ONE => REq(ret, <<100, 1>>)

C4_Witness ==
    pc = "done" /\ args.similarity = 450 /\ RLt(<<90, 1>>, ret) /\ RLt(ret, <<100, 1>>)

-----------------------------------------------------------------------------
(* mfcc_similarity.py : feature matrices.  A matrix is a sequence of frames, *)
(* a frame a sequence of coefficients, a coefficient a fixed-point number.   *)

N_MFCC == 13

MIN_FRAMES == 5

NFrames(m) == Len(m)

\* shape[1]
NCols(m) == IF m = <<>> THEN 0 ELSE Len(m[1])

RECURSIVE SumTo(_, _)
SumTo(f, n) == IF n = 0 THEN 0 ELSE f[n] + SumTo(f, n - 1)

\* floor of the square root, by Newton's iteration
RECURSIVE NewtonSqrt(_, _)
NewtonSqrt(n, x) ==
    LET y == (x + n \div x) \div 2
    IN  IF y >= x THEN x ELSE NewtonSqrt(n, y)

ISqrt(n) == IF n < 2 THEN n ELSE NewtonSqrt(n, n)

\* np.mean(x, axis=0)[j]
ColMean(m, j) == SumTo([t \in 1 .. Len(m) |-> m[t][j]], Len(m)) \div Len(m)

\* np.std(x, axis=0)[j]: the root of the mean squared deviation
ColStd(m, j) ==
    LET mean == ColMean(m, j)
        sq   == [t \in 1 .. Len(m) |-> (m[t][j] - mean) * (m[t][j] - mean)]
    IN  ISqrt(SumTo(sq, Len(m)) \div Len(m))

\* mean standard deviation of the first 13 coefficients (of all, if fewer)
calculate_std_deviation(mfcc) ==
    IF NFrames(mfcc) = 0 THEN 0
    ELSE LET k   == IF NCols(mfcc) >= N_MFCC THEN N_MFCC ELSE NCols(mfcc)
             std == [j \in 1 .. k |-> ColStd(mfcc, j)]
         IN  SumTo(std, k) \div k

\* (mfcc - mean) / (std + 1e-9); a column of zero deviation normalizes to 0
apply_cmvn(mfcc) ==
    IF NFrames(mfcc) = 0 THEN mfcc
    ELSE LET mean == [j \in 1 .. NCols(mfcc) |-> ColMean(mfcc, j)]
             std  == [j \in 1 .. NCols(mfcc) |-> ColStd(mfcc, j)]
         IN  [t \in 1 .. Len(mfcc) |->
                 [j \in 1 .. NCols(mfcc) |->
                     IF std[j] = 0 THEN 0
                     ELSE ((mfcc[t][j] - mean[j]) * ONE) \div std[j]]]

\* np.pad(m, ((before, after), (0, 0)), mode='edge')
EdgePad(m, before, after) ==
    [t \in 1 .. before + Len(m) + after |->
        IF t <= before THEN m[1]
        ELSE IF t > before + Len(m) THEN m[Len(m)]
        ELSE m[t - before]]

\* librosa.feature.delta(m.T, width=width, order=order).T: the derivative of
\* the least-squares polynomial of degree `order` over a window of `width`
\* frames; near the edges the first or the last full window is used
\* (mode='interp').  h is the half width, s the first frame of the window.
Delta(m, width, order) ==
    LET n == Len(m)
        h == (width - 1) \div 2
        a(k) == IF order = 1 THEN k ELSE 3 * k * k - h * (h + 1)
        den  == SumTo([i \in 1 .. width |-> a(i - 1 - h) * a(i - 1 - h)], width)
        num(s, j) == SumTo([i \in 1 .. width |-> a(i - 1 - h) * m[s + i - 1][j]], width)
        start(t)  == Max(1, Min(t - h, n - width + 1))
    IN  [t \in 1 .. n |->
            [j \in 1 .. NCols(m) |->
                IF order = 1 THEN num(start(t), j) \div den
                ELSE (6 * num(start(t), j)) \div den]]

ConcatCols(x, y, z) == [t \in 1 .. Len(x) |-> x[t] \o y[t] \o z[t]]

add_delta_features(mfcc) ==
    LET n_frames == NFrames(mfcc)
    IN  IF n_frames = 0 THEN <<>>
        ELSE IF n_frames < 5
        THEN LET pad_size == Max(0, 5 - n_frames)
                 padded   == EdgePad(mfcc, pad_size, pad_size)
                 d1       == Delta(padded, 3, 1)
                 d2       == Delta(padded, 3, 2)
             IN  ConcatCols(mfcc, SubSeq(d1, pad_size + 1, pad_size + n_frames),
                            SubSeq(d2, pad_size + 1, pad_size + n_frames))
        ELSE IF n_frames < 9
        THEN LET width == Max(3, IF n_frames % 2 = 1 THEN n_frames ELSE n_frames - 1)
             IN  ConcatCols(mfcc, Delta(mfcc, width, 1), Delta(mfcc, width, 2))
        ELSE ConcatCols(mfcc, Delta(mfcc, 9, 1), Delta(mfcc, 9, 2))

pad_reference_mfcc(mfcc, target_length) ==
    IF Len(mfcc) >= target_length THEN mfcc
    ELSE EdgePad(mfcc, 0, target_length - Len(mfcc))

\* std_ratio = user_std / ref_std if ref_std > 0 else 0.0
StdRatio(ref_mfcc, user_mfcc) ==
    LET ref_std  == calculate_std_deviation(ref_mfcc)
        user_std == calculate_std_deviation(user_mfcc)
    IN  IF ref_std > 0 THEN (user_std * ONE) \div ref_std ELSE 0

STD_THRESHOLD == 500

\* 0.05, the largest similarity of a likely omission
OMISSION_MAX == 50

\* dimension_weights = [1.5, 0.8, 0.3]
dimension_weights == <<1500, 800, 300>>

\* 0.3, the largest std-ratio penalty
STD_PENALTY == 300

AddDeltaIfPlain(mfcc) == IF NCols(mfcc) = N_MFCC THEN add_delta_features(mfcc) ELSE mfcc

\* the weight vector w: d = shape[1] // 3 entries of each weight
WeightVector(ref_norm) ==
    LET d == NCols(ref_norm) \div 3
    IN  [j \in 1 .. 3 * d |-> dimension_weights[(j - 1) \div d + 1]]

\* numpy raises when a matrix and the weight vector differ in width
BroadcastFails(norm, w) == NCols(norm) # Len(w)

ApplyWeights(norm, w) ==
    [t \in 1 .. Len(norm) |-> [j \in 1 .. NCols(norm) |-> (norm[t][j] * w[j]) \div ONE]]

\* np.sqrt(np.sum((ref_norm - user_norm) ** 2, axis=1)), then np.mean
MeanFrameDistance(ref_norm, user_norm) ==
    LET dist == [t \in 1 .. Len(ref_norm) |->
                    ISqrt(SumTo([j \in 1 .. NCols(ref_norm) |->
                                    (ref_norm[t][j] - user_norm[t][j])
                                        * (ref_norm[t][j] - user_norm[t][j])],
                                NCols(ref_norm)))]
    IN  SumTo(dist, Len(dist)) \div Len(dist)

\* AlignedPair with the weights applied to the reference only
AlignedPairUserUnweighted(ref_mfcc, user_mfcc) ==
    LET ref_norm  == apply_cmvn(AddDeltaIfPlain(ref_mfcc))
        user_norm == apply_cmvn(AddDeltaIfPlain(user_mfcc))
        w         == WeightVector(ref_norm)
    IN  IF BroadcastFails(ref_norm, w) \/ BroadcastFails(user_norm, w) THEN "error"
        ELSE IF Len(ref_norm) > Len(user_norm)
             THEN <<ApplyWeights(ref_norm, w), pad_reference_mfcc(user_norm, Len(ref_norm))>>
             ELSE <<pad_reference_mfcc(ApplyWeights(ref_norm, w), Len(user_norm)), user_norm>>

\* the two normalized, weighted and length-aligned matrices, or "error" when
\* numpy raises on the way
AlignedPair(ref_mfcc, user_mfcc) ==
    LET ref_aug   == AddDeltaIfPlain(ref_mfcc)
        user_aug  == AddDeltaIfPlain(user_mfcc)
        ref_norm  == apply_cmvn(ref_aug)
        user_norm == apply_cmvn(user_aug)
        w         == WeightVector(ref_norm)
        ref_w     == ApplyWeights(ref_norm, w)
        user_w    == ApplyWeights(user_norm, w)
    IN  IF BroadcastFails(ref_norm, w) \/ BroadcastFails(user_norm, w) THEN "error"
        ELSE IF Len(ref_w) > Len(user_w)
             THEN <<ref_w, pad_reference_mfcc(user_w, Len(ref_w))>>
             ELSE <<pad_reference_mfcc(ref_w, Len(user_w)), user_w>>

\* the std-ratio penalty without its factor 0.3
ApplyStdPenaltyUnscaled(similarity, std_ratio) ==
    IF std_ratio < ONE
    THEN LET std_penalty == ONE - std_ratio
         IN  (similarity * (ONE - std_penalty)) \div ONE
    ELSE similarity

\* the std-ratio penalty of the distance path
ApplyStdPenalty(similarity, std_ratio) ==
    IF std_ratio < ONE
    THEN LET std_penalty == ((ONE - std_ratio) * STD_PENALTY) \div ONE
         IN  (similarity * (ONE - std_penalty)) \div ONE
    ELSE similarity

\* frame_wise_euclidean_similarity with the omission test ahead of the
\* minimum-length guard
frame_wise_omission_first(ref_mfcc, user_mfcc) ==
    IF NFrames(ref_mfcc) = 0 \/ NFrames(user_mfcc) = 0 THEN 0
    ELSE LET std_ratio == StdRatio(ref_mfcc, user_mfcc)
             pair == AlignedPair(ref_mfcc, user_mfcc)
         IN  IF std_ratio < STD_THRESHOLD
             THEN (OMISSION_MAX * (ONE - (ONE - (std_ratio * ONE) \div STD_THRESHOLD))) \div ONE
             ELSE IF NFrames(ref_mfcc) < MIN_FRAMES \/ NFrames(user_mfcc) < MIN_FRAMES THEN 0
             ELSE IF pair = "error" THEN 0
             ELSE ApplyStdPenalty((ONE * ONE) \div (ONE + MeanFrameDistance(pair[1], pair[2])),
                                  std_ratio)

frame_wise_euclidean_similarity(ref_mfcc, user_mfcc) ==
    IF NFrames(ref_mfcc) = 0 \/ NFrames(user_mfcc) = 0 THEN 0
    ELSE IF NFrames(ref_mfcc) < MIN_FRAMES \/ NFrames(user_mfcc) < MIN_FRAMES THEN 0
    ELSE LET std_ratio == StdRatio(ref_mfcc, user_mfcc)
             pair      == AlignedPair(ref_mfcc, user_mfcc)
         IN  IF std_ratio < STD_THRESHOLD
             THEN LET penalty_factor == ONE - (std_ratio * ONE) \div STD_THRESHOLD
                  IN  (OMISSION_MAX * (ONE - penalty_factor)) \div ONE
             ELSE IF pair = "error" THEN 0     \* except Exception: return 0.0
             ELSE LET mean_distance == MeanFrameDistance(pair[1], pair[2])
                      similarity    == (ONE * ONE) \div (ONE + mean_distance)
                  IN  ApplyStdPenalty(similarity, std_ratio)

-----------------------------------------------------------------------------
(* Inputs of frame_wise_euclidean_similarity.  A matrix is described by its  *)
(* amplitude (in quarters), the pattern of its frames, its number of frames    *)
(* and its width; a 39-wide matrix is a 13-wide one with its derivatives, a  *)
(* 12-wide one a malformed matrix that lost a coefficient.                   *)

MaxAmp == 5

MaxFrames == 6

REF_AMP == 4

MALFORMED_WIDTH == 12

AUGMENTED_WIDTH == 39

QUARTER == 250

FrameCounts == {0, MIN_FRAMES - 1} \cup (MIN_FRAMES .. MaxFrames)

PlainMatrix(amp, pattern, n, width) ==
    [t \in 1 .. n |-> [j \in 1 .. width |-> amp * QUARTER * ((t * (1 + pattern) + j) % 3)]]

MatrixOf(profile) ==
    IF profile.n = 0 THEN <<>>
    ELSE IF profile.width = AUGMENTED_WIDTH
    THEN add_delta_features(PlainMatrix(profile.amp, profile.pattern, profile.n, N_MFCC))
    ELSE PlainMatrix(profile.amp, profile.pattern, profile.n, profile.width)

RefProfiles ==
    [amp : {0, REF_AMP}, pattern : {0}, n : FrameCounts,
     width : {MALFORMED_WIDTH, N_MFCC, AUGMENTED_WIDTH}]

UserProfiles ==
    [amp : 0 .. MaxAmp, pattern : {0, 1}, n : FrameCounts,
     width : {N_MFCC, AUGMENTED_WIDTH}]

InitSimilarity ==
    /\ pc = "call"
    /\ args \in [ref_mfcc : RefProfiles, user_mfcc : UserProfiles]
    /\ ret = NoValue
    /\ NoRun

CallFrameWiseEuclideanSimilarity ==
    /\ pc = "call"
    /\ pc' = "done"
    /\ ret' = frame_wise_euclidean_similarity(MatrixOf(args.ref_mfcc), MatrixOf(args.user_mfcc))
    /\ UNCHANGED <<args, run>>

NextSimilarity == CallFrameWiseEuclideanSimilarity

SpecSimilarity == InitSimilarity /\ [][NextSimilarity]_vars

\* the widths a feature matrix has: 13 coefficients, or 39 with derivatives
WellFormed(mfcc) == NFrames(mfcc) = 0 \/ NCols(mfcc) \in {N_MFCC, AUGMENTED_WIDTH}

\* C3: on feature matrices of width 13 or 39, frame_wise_euclidean_similarity
\* returns exactly 0 when either matrix has no frame or fewer than 5 frames,
\* whatever the deviations are (the length guards come first); otherwise,
\* when std_ratio = user_std / ref_std (0 if ref_std is 0) is below 0.5, it
\* returns 0.05 * std_ratio / 0.5, a value in [0, 0.05]; otherwise it returns
\* a value in (0, 1].
C3_SimilarityRanges ==
    (pc = "done" /\ WellFormed(MatrixOf(args.ref_mfcc))) =>
        LET ref_mfcc  == MatrixOf(args.ref_mfcc)
            user_mfcc == MatrixOf(args.user_mfcc)
            std_ratio == StdRatio(ref_mfcc, user_mfcc)
        IN  IF NFrames(ref_mfcc) < MIN_FRAMES \/ NFrames(user_mfcc) < MIN_FRAMES
            THEN ret = 0
            ELSE IF std_ratio < STD_THRESHOLD
            THEN /\ ret = (OMISSION_MAX * std_ratio) \div STD_THRESHOLD
                 /\ 0 <= ret /\ ret <= OMISSION_MAX
            ELSE 0 < ret /\ ret <= ONE

\* a short user segment of low but non-zero deviation scores 0, a long one
\* of the same deviation scores inside (0, 0.05), a long one of full
\* deviation scores inside (0, 1): here the second case
C3_Witness ==
    /\ pc = "done"
    /\ WellFormed(MatrixOf(args.ref_mfcc))
    /\ NFrames(MatrixOf(args.ref_mfcc)) >= MIN_FRAMES
    /\ NFrames(MatrixOf(args.user_mfcc)) >= MIN_FRAMES
    /\ StdRatio(MatrixOf(args.ref_mfcc), MatrixOf(args.user_mfcc)) \in 1 .. STD_THRESHOLD - 1
    /\ ret \in 1 .. OMISSION_MAX - 1

\* C6: when the reference and the user matrix are identical, with at least 5
\* frames and non-zero deviation, std_ratio is exactly 1, neither the
\* omission return nor the std-ratio penalty applies, the mean frame distance
\* is 0, the similarity is exactly 1.0 and its calibrated score is 100.
C6_IdenticalMatricesScoreFull ==
    (/\ pc = "done"
     /\ MatrixOf(args.ref_mfcc) = MatrixOf(args.user_mfcc)
     /\ NFrames(MatrixOf(args.ref_mfcc)) >= MIN_FRAMES
     /\ calculate_std_deviation(MatrixOf(args.ref_mfcc)) > 0) =>
        LET mfcc      == MatrixOf(args.ref_mfcc)
            std_ratio == StdRatio(mfcc, mfcc)
            pair      == AlignedPair(mfcc, mfcc)
        IN  /\ std_ratio = ONE
            /\ ~(std_ratio < STD_THRESHOLD)
            /\ ApplyStdPenalty(ONE, std_ratio) = ONE
            /\ pair # "error"
            /\ MeanFrameDistance(pair[1], pair[2]) = 0
            /\ ret = ONE
            /\ REq(continuous_score(ret), <<100, 1>>)

C6_Witness ==
    /\ pc = "done"
    /\ MatrixOf(args.ref_mfcc) = MatrixOf(args.user_mfcc)
    /\ NFrames(MatrixOf(args.ref_mfcc)) > MIN_FRAMES
    /\ NCols(MatrixOf(args.ref_mfcc)) = N_MFCC
    /\ calculate_std_deviation(MatrixOf(args.ref_mfcc)) > 0
    /\ ret = ONE

-----------------------------------------------------------------------------
(* mfcc_similarity.py : extract_mfcc_segment                                 *)

\* np.linspace(0, stop, num=num), in milliseconds
linspace(stop, num) ==
    [i \in 1 .. num |-> IF num = 1 THEN 0 ELSE ((i - 1) * stop) \div (num - 1)]

\* np.searchsorted(a, v, side): binary search of the sorted array a for the
\* number of elements before v ("left": the elements < v, "right": <= v)
RECURSIVE Bisect(_, _, _, _, _)
Bisect(a, v, side, lo, hi) ==
    IF lo >= hi THEN lo
    ELSE LET mid == (lo + hi) \div 2
             before == IF side = "left" THEN a[mid + 1] < v ELSE a[mid + 1] <= v
         IN  IF before THEN Bisect(a, v, side, mid + 1, hi)
             ELSE Bisect(a, v, side, lo, mid)

searchsorted(a, v, side) == Bisect(a, v, side, 0, Len(a))

\* extract_mfcc_segment searching the end time from the left as well
extract_mfcc_segment_end_left(mfcc, frame_times, start_time, end_time) ==
    LET start_idx == Max(0, searchsorted(frame_times, start_time, "left"))
        end_idx   == Min(Len(mfcc), searchsorted(frame_times, end_time, "left"))
    IN  IF end_idx - start_idx < MIN_FRAMES THEN <<>>
        ELSE SubSeq(mfcc, start_idx + 1, end_idx)

extract_mfcc_segment(mfcc, frame_times, start_time, end_time) ==
    LET start_idx == Max(0, searchsorted(frame_times, start_time, "left"))
        end_idx   == Min(Len(mfcc), searchsorted(frame_times, end_time, "right"))
    IN  IF end_idx - start_idx < MIN_FRAMES THEN <<>>   \* np.array([])
        ELSE SubSeq(mfcc, start_idx + 1, end_idx)        \* mfcc[start_idx:end_idx]

MaxSegFrames == 8

MaxTick == 9

TICK == 125

\* the audio lengths: no audio, one that puts the frames of an 8-frame
\* matrix on the ticks, one that puts those of a 9-frame matrix there
Durations == {0, 7 * TICK, 8 * TICK}

TimeGrid == {k * TICK : k \in -1 .. MaxTick}

\* a matrix whose frame i holds the number i, so that a result shows which
\* frames it is made of
NumberedFrames(n) == [i \in 1 .. n |-> <<i>>]

InitExtract ==
    /\ pc = "call"
    /\ args \in [n : 0 .. MaxSegFrames, duration : Durations,
                 start_time : TimeGrid, end_time : TimeGrid]
    /\ ret = NoValue
    /\ NoRun

CallExtractMfccSegment ==
    /\ pc = "call"
    /\ pc' = "done"
    /\ ret' = extract_mfcc_segment(NumberedFrames(args.n), linspace(args.duration, args.n),
                                   args.start_time, args.end_time)
    /\ UNCHANGED <<args, run>>

NextExtract == CallExtractMfccSegment

SpecExtract == InitExtract /\ [][NextExtract]_vars

\* the frames of the call whose time lies in [start_time, end_time]
FramesInRange ==
    {i \in 1 .. args.n : /\ args.start_time <= linspace(args.duration, args.n)[i]
                         /\ linspace(args.duration, args.n)[i] <= args.end_time}

\* C7: extract_mfcc_segment returns exactly the frames whose time t satisfies
\* start <= t <= end, in order, when there are at least 5 of them, and an
\* empty matrix when there are fewer; with start = 0 and end = duration on a
\* matrix of at least 5 frames it returns every frame.
C7_ExtractReturnsFramesInRange ==
    pc = "done" =>
        /\ Cardinality(FramesInRange) >= MIN_FRAMES =>
              /\ Len(ret) = Cardinality(FramesInRange)
              /\ \A k \in 1 .. Len(ret) : ret[k][1] \in FramesInRange
              /\ \A k \in 1 .. Len(ret) - 1 : ret[k][1] < ret[k + 1][1]
        /\ Cardinality(FramesInRange) < MIN_FRAMES => ret = <<>>
        /\ (args.start_time = 0 /\ args.end_time = args.duration /\ args.n >= MIN_FRAMES) =>
              ret = NumberedFrames(args.n)

\* a proper segment of 5 frames or more whose two ends fall on frame times
C7_Witness ==
    /\ pc = "done"
    /\ Len(ret) >= MIN_FRAMES
    /\ Len(ret) < args.n
    /\ args.start_time > 0
    /\ linspace(args.duration, args.n)[ret[1][1]] = args.start_time
    /\ linspace(args.duration, args.n)[ret[Len(ret)][1]] = args.end_time

-----------------------------------------------------------------------------
(* mfcc_similarity.py : compare_mfcc_segments.  A value of the reference     *)
(* document is a record of its Python type and its rows.                     *)

None == [type |-> "NoneType", rows |-> <<>>]

EmptyList == [type |-> "list", rows |-> <<>>]

\* a sequence without rows that is not the list []
EmptyTuple == [type |-> "tuple", rows |-> <<>>]

\* segment.get("mfcc")
GetMfcc(segment) == IF "mfcc" \in DOMAIN segment THEN segment.mfcc ELSE None

\* np.array(ref_mfcc_data)
np_array(data) == data.rows

\* the statistics printed for a job: ref_aligned - user_aligned raises when
\* the two matrices differ in width
JobLogRaises(ref_mfcc, user_segment) == NCols(ref_mfcc) # NCols(user_segment)

\* the offset taken from the first segment that carries a matrix
SegmentOffsetOfFirstMatrix(cached_segments) ==
    LET with == {i \in 1 .. Len(cached_segments) :
                    NFrames(np_array(GetMfcc(cached_segments[i]))) > 0}
    IN  IF with = {} THEN 0
        ELSE cached_segments[CHOOSE i \in with : \A k \in with : i <= k].start_time

\* offset = cached_segments[0]['start_time'] if cached_segments else 0
SegmentOffset(cached_segments) ==
    IF cached_segments = <<>> THEN 0 ELSE cached_segments[1].start_time

\* the body of the loop up to the similarity of one segment
SegmentSimilarity(segment, start, end, user_mfcc, user_frame_times, job_id) ==
    LET ref_mfcc_data == GetMfcc(segment)
    IN  IF ref_mfcc_data = None THEN 0
        ELSE IF ref_mfcc_data = EmptyList THEN 0
        ELSE LET ref_mfcc     == np_array(ref_mfcc_data)
                 user_segment == extract_mfcc_segment(user_mfcc, user_frame_times, start, end)
             IN  IF NFrames(ref_mfcc) = 0 THEN 0
                 ELSE IF NFrames(user_segment) = 0 THEN 0
                 ELSE IF job_id # None /\ JobLogRaises(ref_mfcc, user_segment)
                 THEN 0                              \* except Exception: similarity = 0.0
                 ELSE frame_wise_euclidean_similarity(ref_mfcc, user_segment)

\* adjusted_score / 100.0
Normalized(adjusted_score) == <<adjusted_score[1], adjusted_score[2] * 100>>

compare_mfcc_segments(cached_segments, user_mfcc, user_frame_times, job_id) ==
    LET offset == SegmentOffset(cached_segments)
    IN  [i \in 1 .. Len(cached_segments) |->
            LET segment    == cached_segments[i]
                similarity == SegmentSimilarity(segment, segment.start_time - offset,
                                                segment.end_time - offset,
                                                user_mfcc, user_frame_times, job_id)
            IN  [word           |-> segment.word,
                 similarity     |-> similarity,
                 adjusted_score |-> Normalized(continuous_score(similarity))]]

MaxSegments == 2

USER_FRAMES == 11

USER_DURATION == 1000

\* what a reference word carries as its matrix: nothing, null, [], an empty
\* tuple, or a matrix of the given description
MfccKinds == {"absent", "None", "list", "tuple"}

MfccChoices ==
    [kind : MfccKinds, amp : {0}, pattern : {0}, n : {0}, width : {0}]
        \cup [kind : {"matrix"}, amp : {REF_AMP}, pattern : {0}, n : {MIN_FRAMES + 1},
              width : {N_MFCC, AUGMENTED_WIDTH}]

SegmentSpans == {<<0, 500>>, <<500, 1000>>, <<2000, 2500>>}

SegmentChoices == [word : {cat}, span : SegmentSpans, mfcc : MfccChoices]

ChronologicalSpans(segs) ==
    \A i \in 1 .. Len(segs) - 1 : segs[i].span[2] <= segs[i + 1].span[1]

\* the python value of a described matrix
PyValue(choice) ==
    IF choice.kind = "None" THEN None
    ELSE IF choice.kind = "list" THEN EmptyList
    ELSE IF choice.kind = "tuple" THEN EmptyTuple
    ELSE [type |-> "list", rows |-> MatrixOf(choice)]

\* the segment of the reference document of a described segment
PySegment(seg) ==
    IF seg.mfcc.kind = "absent"
    THEN [word |-> seg.word, start_time |-> seg.span[1], end_time |-> seg.span[2]]
    ELSE [word |-> seg.word, start_time |-> seg.span[1], end_time |-> seg.span[2],
          mfcc |-> PyValue(seg.mfcc)]

PySegments(segs) == [i \in 1 .. Len(segs) |-> PySegment(segs[i])]

JobIds == {None, [type |-> "str", rows |-> <<"j">>]}

InitCompare ==
    /\ pc = "call"
    /\ args \in [cached_segments : {segs \in SeqsUpTo(SegmentChoices, MaxSegments) :
                                        segs # <<>> /\ ChronologicalSpans(segs)},
                 user : [amp : {1, REF_AMP}, pattern : {1}],
                 job_id : JobIds]
    /\ ret = NoValue
    /\ NoRun

CallCompareMfccSegments ==
    /\ pc = "call"
    /\ pc' = "done"
    /\ ret' = compare_mfcc_segments(PySegments(args.cached_segments),
                  PlainMatrix(args.user.amp, args.user.pattern, USER_FRAMES, N_MFCC),
                  linspace(USER_DURATION, USER_FRAMES), args.job_id)
    /\ UNCHANGED <<args, run>>

NextCompare == CallCompareMfccSegments

SpecCompare == InitCompare /\ [][NextCompare]_vars

\* the reference word carries no matrix: the field is absent, null, [] or
\* without frames
CarriesNoMatrix(seg) == seg.mfcc.kind \in MfccKinds

\* the call with segment i carrying the matrix m instead of its own value
ResultWithMatrix(i, m) ==
    compare_mfcc_segments(PySegments([args.cached_segments EXCEPT ![i].mfcc = m]),
        PlainMatrix(args.user.amp, args.user.pattern, USER_FRAMES, N_MFCC),
        linspace(USER_DURATION, USER_FRAMES), args.job_id)

\* C10: a reference word that carries no precomputed matrix (absent, null,
\* empty list or zero frames) gets similarity exactly 0.0 and calibrated
\* score 0, and the records of all the other words are the ones the call
\* returns when that word carries a matrix.
C10_MissingMatrixScoresZero ==
    pc = "done" =>
        \A i \in 1 .. Len(args.cached_segments) :
            CarriesNoMatrix(args.cached_segments[i]) =>
                /\ ret[i].similarity = 0
                /\ REq(ret[i].adjusted_score, <<0, 1>>)
                /\ \A m \in {c \in MfccChoices : c.kind = "matrix" /\ c.width = N_MFCC} :
                      \A j \in 1 .. Len(args.cached_segments) :
                          j # i => ret[j] = ResultWithMatrix(i, m)[j]

\* the first word carries no matrix, the second one does and scores above 0
C10_Witness ==
    /\ pc = "done"
    /\ Len(args.cached_segments) >= 2
    /\ CarriesNoMatrix(args.cached_segments[1])
    /\ ret[1].similarity = 0
    /\ ret[2].similarity > 0

-----------------------------------------------------------------------------
(* pronunciation.py : the scoring run.  None in a time field is the integer  *)
(* NONE_TIME, which no time takes; an operator that can raise returns the    *)
(* name of the exception next to its value.                                  *)

NONE_TIME == -1000000

Ok(value) == [raised |-> "no", value |-> value]

Raise(name) == [raised |-> name, value |-> <<>>]

\* text.startswith('[') and text.endswith(']')
IsControlToken(text) == text # <<>> /\ Head(text) = "[" /\ text[Len(text)] = "]"

\* the characters of the class [\W_]
NonWord == WhiteSpace \cup Punctuation \cup {"apos", "_"}

\* re.fullmatch(r'[\W_]+', text)
IsPurePunctuation(text) == text # <<>> /\ \A i \in DOMAIN text : text[i] \in NonWord

\* the loop over the tokens and the last word after it
RECURSIVE MergeTokens(_, _, _, _)
MergeTokens(tokens, current_text, word_start, prev_end) ==
    LET saved == IF current_text # <<>>
                 THEN <<[word |-> current_text, start_time |-> word_start,
                         end_time |-> prev_end]>>
                 ELSE <<>>
    IN  IF tokens = <<>> THEN saved
        ELSE LET token == Head(tokens)
                 text  == IF "text" \in DOMAIN token THEN token.text ELSE <<>>
                 start == parse_time(token.timestamps.from)
                 end   == parse_time(token.timestamps.to)
             IN  IF IsControlToken(text) \/ IsPurePunctuation(text)
                 THEN MergeTokens(Tail(tokens), current_text, word_start, prev_end)
                 ELSE IF text # <<>> /\ Head(text) = " "
                 THEN saved \o MergeTokens(Tail(tokens), Strip(text), start, end)
                 ELSE MergeTokens(Tail(tokens), current_text \o Strip(text), word_start, end)

\* the entries of transcription['words'] that have word, start and end
WordsOfList(words) ==
    LET complete == SelectSeq(words, LAMBDA w : {"word", "start", "end"} \subseteq DOMAIN w)
    IN  [i \in DOMAIN complete |->
            [word |-> complete[i].word, start_time |-> complete[i].start,
             end_time |-> complete[i].end]]

extract_word_timestamps(stt_result) ==
    IF "transcription" \notin DOMAIN stt_result \/ stt_result.transcription = <<>> THEN <<>>
    ELSE LET transcription == stt_result.transcription[1]
         IN  IF "words" \in DOMAIN transcription /\ transcription.words # <<>>
             THEN WordsOfList(transcription.words)
             ELSE IF "tokens" \notin DOMAIN transcription \/ transcription.tokens = <<>>
             THEN <<>>
             ELSE MergeTokens(transcription.tokens, <<>>, NONE_TIME, NONE_TIME)

\* returns <<overlap_duration, overlap_ratio>>
calculate_time_overlap(ref_start, ref_end, user_start, user_end) ==
    LET overlap_start == Max(ref_start, user_start)
        overlap_end   == Min(ref_end, user_end)
        ref_duration  == ref_end - ref_start
    IN  IF overlap_start >= overlap_end THEN <<0, <<0, 1>>>>
        ELSE <<overlap_end - overlap_start,
               IF ref_duration > 0 THEN <<overlap_end - overlap_start, ref_duration>>
               ELSE <<0, 1>>>>

\* threshold=0.4, as the rational 4/10
TIME_THRESHOLD == <<4, 10>>

\* normalize_and_tokenize(word)[0] raises IndexError on a word without token
HasNoToken(word) == normalize_and_tokenize(word) = <<>>

\* user_words_dict.get(ref_key): the position of the last user word of that
\* key, 0 when there is none
UserMatch(ref_key, user_word_timestamps) ==
    LET same == {i \in DOMAIN user_word_timestamps :
                    normalize_and_tokenize(user_word_timestamps[i].word)[1] = ref_key}
    IN  IF same = {} THEN 0 ELSE CHOOSE i \in same : \A k \in same : k <= i

\* the loop body marking every reference word that has a candidate as matched
TimeMatchOneAnyCandidate(ref_word_data, user_word_timestamps, threshold) ==
    LET ref_start  == IF "start_time" \in DOMAIN ref_word_data
                      THEN ref_word_data.start_time ELSE 0
        ref_end    == IF "end_time" \in DOMAIN ref_word_data
                      THEN ref_word_data.end_time ELSE 0
        ref_key    == normalize_and_tokenize(ref_word_data.word)[1]
        match      == UserMatch(ref_key, user_word_timestamps)
        user_match == user_word_timestamps[match]
        overlap    == calculate_time_overlap(ref_start, ref_end, user_match.start_time,
                                             user_match.end_time)
    IN  [word |-> ref_word_data.word, time_match |-> match # 0,
         overlap_ratio |-> IF match # 0 THEN overlap[2] ELSE <<0, 1>>,
         ref_start |-> ref_start, ref_end |-> ref_end,
         user_start |-> IF match # 0 THEN user_match.start_time ELSE NONE_TIME,
         user_end |-> IF match # 0 THEN user_match.end_time ELSE NONE_TIME]

\* one iteration of the loop over the reference words
TimeMatchOne(ref_word_data, user_word_timestamps, threshold) ==
    LET ref_start  == IF "start_time" \in DOMAIN ref_word_data
                      THEN ref_word_data.start_time ELSE 0
        ref_end    == IF "end_time" \in DOMAIN ref_word_data
                      THEN ref_word_data.end_time ELSE 0
        ref_key    == normalize_and_tokenize(ref_word_data.word)[1]
        match      == UserMatch(ref_key, user_word_timestamps)
        user_match == user_word_timestamps[match]
        overlap    == calculate_time_overlap(ref_start, ref_end, user_match.start_time,
                                             user_match.end_time)
    IN  IF match # 0
        THEN [word |-> ref_word_data.word, time_match |-> RLe(threshold, overlap[2]),
              overlap_ratio |-> overlap[2], ref_start |-> ref_start, ref_end |-> ref_end,
              user_start |-> user_match.start_time, user_end |-> user_match.end_time]
        ELSE [word |-> ref_word_data.word, time_match |-> FALSE,
              overlap_ratio |-> <<0, 1>>, ref_start |-> ref_start, ref_end |-> ref_end,
              user_start |-> NONE_TIME, user_end |-> NONE_TIME]

\* what the iteration of a reference word raises, "no" if nothing: IndexError
\* on a word without token, TypeError on max(ref_start, None)
TimeMatchRaises(ref_word_data, user_word_timestamps) ==
    IF HasNoToken(ref_word_data.word) THEN "IndexError"
    ELSE LET match == UserMatch(normalize_and_tokenize(ref_word_data.word)[1],
                                user_word_timestamps)
         IN  IF match # 0 /\ user_word_timestamps[match].start_time = NONE_TIME
             THEN "TypeError" ELSE "no"

\* analyze_time_overlap reading the first recognized word before the loop:
\* IndexError when nothing was recognized
analyze_time_overlap_first_word(job_id, reference_words, user_word_timestamps, threshold) ==
    IF user_word_timestamps = <<>> THEN Raise("IndexError")
    ELSE IF \E i \in DOMAIN user_word_timestamps : HasNoToken(user_word_timestamps[i].word)
    THEN Raise("IndexError")
    ELSE LET raising == {i \in DOMAIN reference_words :
                            TimeMatchRaises(reference_words[i], user_word_timestamps) # "no"}
         IN  IF raising # {}
             THEN Raise(TimeMatchRaises(
                      reference_words[CHOOSE i \in raising : \A k \in raising : i <= k],
                      user_word_timestamps))
             ELSE Ok([i \in DOMAIN reference_words |->
                         TimeMatchOne(reference_words[i], user_word_timestamps, threshold)])

analyze_time_overlap(job_id, reference_words, user_word_timestamps, threshold) ==
    IF \E i \in DOMAIN user_word_timestamps : HasNoToken(user_word_timestamps[i].word)
    THEN Raise("IndexError")
    ELSE LET raising == {i \in DOMAIN reference_words :
                            TimeMatchRaises(reference_words[i], user_word_timestamps) # "no"}
         IN  IF raising # {}
             THEN Raise(TimeMatchRaises(
                      reference_words[CHOOSE i \in raising : \A k \in raising : i <= k],
                      user_word_timestamps))
             ELSE Ok([i \in DOMAIN reference_words |->
                         TimeMatchOne(reference_words[i], user_word_timestamps, threshold)])

\* one more decimal digit of the quotient r / d: <<digit, remainder>>
NextDigit(r, d) == <<(10 * r) \div d, (10 * r) % d>>

\* round(x, 3) of the non-negative rational x, in thousandths: the quotient
\* to three decimals by long division, the tie going to the even neighbour
Round3(x) ==
    LET d  == x[2]
        d1 == NextDigit(x[1] % d, d)
        d2 == NextDigit(d1[2], d)
        d3 == NextDigit(d2[2], d)
        q  == 1000 * (x[1] \div d) + 100 * d1[1] + 10 * d2[1] + d3[1]
    IN  IF 2 * d3[2] > d THEN q + 1
        ELSE IF 2 * d3[2] = d THEN q + (q % 2)
        ELSE q

\* the share of the text score and of the MFCC score in a word score
TEXT_WEIGHT == 7

MFCC_WEIGHT == 3

\* the value of 100% in the unit of the token probability p
FULL_CONFIDENCE == 100

\* mfcc_similarity < 0.4, in thousandths of the rounded value
LOW_QUALITY == 400

SumSeq(s) == SumTo(s, Len(s))

\* the loop body with line 633 in place of line 632: a passed word counts
\* as text score 1.0
WordAnalysisFullTextScore(i, word, text_comparison_result, mfcc_comparison_result, time_matching_results) ==
    LET text_status == IF i <= Len(text_comparison_result)
                       THEN text_comparison_result[i].status ELSE "fail"
        has_time    == i <= Len(time_matching_results)
        time_match  == IF has_time THEN time_matching_results[i].time_match ELSE FALSE
        overlap_ratio == IF has_time THEN time_matching_results[i].overlap_ratio
                         ELSE <<0, 1>>
        mfcc_similarity ==
            IF i <= Len(mfcc_comparison_result)
            THEN mfcc_comparison_result[i].adjusted_score ELSE <<0, 1>>
        confidence  == IF "confidence" \in DOMAIN text_comparison_result[i]
                       THEN text_comparison_result[i].confidence ELSE 0
        text_score  == IF text_status = "pass" THEN FULL_CONFIDENCE ELSE 0
        \* (text_score * 0.7) + (mfcc_similarity * 0.3)
        word_score  == <<TEXT_WEIGHT * text_score * mfcc_similarity[2]
                            + MFCC_WEIGHT * FULL_CONFIDENCE * mfcc_similarity[1],
                         10 * FULL_CONFIDENCE * mfcc_similarity[2]>>
    IN  [word |-> word, text_status |-> text_status, time_match |-> time_match,
         overlap_ratio |-> Round3(overlap_ratio),
         mfcc_similarity |-> Round3(mfcc_similarity),
         word_score |-> Round3(word_score)]

\* one iteration of the loop of generate_comprehensive_results; the numbers
\* of the record are thousandths
WordAnalysis(i, word, text_comparison_result, mfcc_comparison_result, time_matching_results) ==
    LET text_status == IF i <= Len(text_comparison_result)
                       THEN text_comparison_result[i].status ELSE "fail"
        has_time    == i <= Len(time_matching_results)
        time_match  == IF has_time THEN time_matching_results[i].time_match ELSE FALSE
        overlap_ratio == IF has_time THEN time_matching_results[i].overlap_ratio
                         ELSE <<0, 1>>
        mfcc_similarity ==
            IF i <= Len(mfcc_comparison_result)
            THEN mfcc_comparison_result[i].adjusted_score ELSE <<0, 1>>
        confidence  == IF "confidence" \in DOMAIN text_comparison_result[i]
                       THEN text_comparison_result[i].confidence ELSE 0
        text_score  == IF text_status = "pass" THEN confidence ELSE 0
        \* (text_score * 0.7) + (mfcc_similarity * 0.3)
        word_score  == <<TEXT_WEIGHT * text_score * mfcc_similarity[2]
                            + MFCC_WEIGHT * FULL_CONFIDENCE * mfcc_similarity[1],
                         10 * FULL_CONFIDENCE * mfcc_similarity[2]>>
    IN  [word |-> word, text_status |-> text_status, time_match |-> time_match,
         overlap_ratio |-> Round3(overlap_ratio),
         mfcc_similarity |-> Round3(mfcc_similarity),
         word_score |-> Round3(word_score)]

\* the positions of s that satisfy keep, in order
Positions(n, keep(_)) == SelectSeq([i \in 1 .. n |-> i], keep)

generate_comprehensive_results(job_id, reference_words, text_comparison_result, mfcc_comparison_result, time_matching_results) ==
    LET n == Len(reference_words)
        word_analysis ==
            [i \in 1 .. n |->
                WordAnalysis(i, reference_words[i], text_comparison_result,
                             mfcc_comparison_result, time_matching_results)]
        has_time(i) == i <= Len(time_matching_results)
        stt_failed(i)  == has_time(i) /\ time_matching_results[i].user_start = NONE_TIME
        time_failed(i) == /\ ~stt_failed(i)
                          /\ ~word_analysis[i].time_match
                          /\ has_time(i)
                          /\ time_matching_results[i].user_start # NONE_TIME
        \* the test reads the unrounded calibrated score
        low_quality(i) ==
            LET mfcc_similarity == IF i <= Len(mfcc_comparison_result)
                                   THEN mfcc_comparison_result[i].adjusted_score
                                   ELSE <<0, 1>>
            IN  RLt(mfcc_similarity, <<LOW_QUALITY, 1000>>)
        text_pass_count == Len(Positions(n, LAMBDA i : word_analysis[i].text_status = "pass"))
        time_pass_count == Len(Positions(n, LAMBDA i : word_analysis[i].time_match))
        mfcc_total  == SumSeq([i \in 1 .. n |-> word_analysis[i].mfcc_similarity])
        score_total == SumSeq([i \in 1 .. n |-> word_analysis[i].word_score])
        WordsAt(positions) == [k \in DOMAIN positions |-> reference_words[positions[k]]]
    IN  [overall_score |-> IF n > 0 THEN Round3(<<score_total, 1000 * n>>) ELSE 0,
         word_analysis |-> word_analysis,
         summary |->
            [text_accuracy |-> IF n > 0 THEN Round3(<<text_pass_count, n>>) ELSE 0,
             time_accuracy |-> IF n > 0 THEN Round3(<<time_pass_count, n>>) ELSE 0,
             mfcc_average  |-> IF n > 0 THEN Round3(<<mfcc_total, 1000 * n>>) ELSE 0,
             total_words   |-> n,
             passed_words  |-> text_pass_count,
             time_matched_words |-> time_pass_count],
         failure_analysis |->
            [stt_failures     |-> WordsAt(Positions(n, stt_failed)),
             time_failures    |-> WordsAt(Positions(n, time_failed)),
             mfcc_low_quality |-> WordsAt(Positions(n, low_quality))]]

-----------------------------------------------------------------------------
(* pronunciation.py : analyze_pronunciation_pipeline.  The job's inputs are  *)
(* the reference script, what speech_to_text returns for the user's audio    *)
(* and the feature matrix of that audio.                                     *)

\* the locals of the run before anything is bound
UnboundLocals ==
    [bound |-> {}, user_stt_result |-> <<>>, user_text |-> <<>>,
     reference_segments |-> <<>>, user_word_timestamps |-> <<>>,
     time_matching_results |-> <<>>, text_comparison_result |-> <<>>,
     mfcc_comparison_result |-> <<>>, final_results |-> <<>>, exception |-> ""]

Bound(name) == name \in locals.bound

\* the binding of the locals of names to the values of the record updates
Bind(updates) ==
    [name \in DOMAIN locals |->
        IF name = "bound" THEN locals.bound \cup DOMAIN updates
        ELSE IF name \in DOMAIN updates THEN updates[name]
        ELSE locals[name]]

\* control passes to the except clause with the exception e
Except(e) ==
    /\ pc' = "except"
    /\ locals' = [locals EXCEPT !.exception = e]

\* lines 264-314: the reference text and its length, the recognition of the
\* user's audio, the reference segments and the user's words
SpeechToText ==
    /\ pc = "start"
    /\ LET words == args.script_data.words
           user_stt_result == args.user_stt_result
           user_text ==
               IF "transcription" \in DOMAIN user_stt_result
                  /\ user_stt_result.transcription # <<>>
               THEN Strip(IF "text" \in DOMAIN user_stt_result.transcription[1]
                          THEN user_stt_result.transcription[1].text ELSE <<>>)
               ELSE <<>>
       IN  IF words = <<>> \/ "end_time" \notin DOMAIN words[Len(words)]
           THEN Except("UnboundLocalError")   \* ref_total_duration in line 285
           ELSE /\ pc' = "overlap"
                /\ locals' = Bind(
                      [user_stt_result |-> user_stt_result,
                       user_text |-> user_text,
                       reference_segments |-> normalize_segments_to_zero(words),
                       user_word_timestamps |->
                          IF user_text # <<>> /\ Head(user_text) = "["
                          THEN <<>>
                          ELSE extract_word_timestamps(user_stt_result)])
    /\ UNCHANGED <<args, ret, webhook>>

\* Step 2, line 348
AnalyzeTimeOverlap ==
    /\ pc = "overlap"
    /\ LET result == analyze_time_overlap(args.job_id, locals.reference_segments,
                                          locals.user_word_timestamps, TIME_THRESHOLD)
       IN  IF result.raised # "no" THEN Except(result.raised)
           ELSE /\ pc' = "text"
                /\ locals' = Bind([time_matching_results |-> result.value])
    /\ UNCHANGED <<args, ret, webhook>>

\* Step 3, lines 356-362
CompareTexts ==
    /\ pc = "text"
    /\ pc' = "mfcc"
    /\ locals' = Bind([text_comparison_result |->
                          compare_texts(locals.reference_segments, locals.user_stt_result)])
    /\ UNCHANGED <<args, ret, webhook>>

\* Step 4, lines 367-379
CompareMfcc ==
    /\ pc = "mfcc"
    /\ pc' = "report"
    /\ locals' = Bind([mfcc_comparison_result |->
                          compare_mfcc_segments(locals.reference_segments,
                              PlainMatrix(args.user_audio.amp, args.user_audio.pattern,
                                          USER_FRAMES, N_MFCC),
                              linspace(USER_DURATION, USER_FRAMES), args.job_id)])
    /\ UNCHANGED <<args, ret, webhook>>

\* Step 5, lines 382-392
GenerateResults ==
    /\ pc = "report"
    /\ pc' = "webhook"
    /\ locals' = Bind([final_results |->
                          [report |-> generate_comprehensive_results(args.job_id,
                                          [i \in DOMAIN locals.reference_segments |->
                                              locals.reference_segments[i].word],
                                          locals.text_comparison_result,
                                          locals.mfcc_comparison_result,
                                          locals.time_matching_results),
                           user_stt |-> [text |-> locals.user_text,
                                         word_timestamps |-> locals.user_word_timestamps]]])
    /\ UNCHANGED <<args, ret, webhook>>

\* Step 6, lines 395-403: the request is posted; it may raise
PostCompleted ==
    /\ pc = "webhook"
    /\ webhook' = Append(webhook, [job_id |-> args.job_id, status |-> "completed",
                                   result |-> locals.final_results])
    /\ \/ pc' = "finally" /\ UNCHANGED locals
       \/ Except("RequestException")
    /\ UNCHANGED <<args, ret>>

\* lines 418-432: the failure is posted; an exception of the request is
\* swallowed
PostFailed ==
    /\ pc = "except"
    /\ pc' = "finally"
    /\ webhook' = Append(webhook, [job_id |-> args.job_id, status |-> "failed",
                                   error |-> locals.exception])
    /\ UNCHANGED <<args, ret, locals>>

\* lines 434-440
Cleanup ==
    /\ pc = "finally"
    /\ pc' = "done"
    /\ UNCHANGED <<args, ret, locals, webhook>>

-----------------------------------------------------------------------------
(* The jobs of the scoring run *)

MaxJobWords == 2

MaxJobTokens == 2

Bang   == <<"!">>
sp_dog == <<" ", "d", "o", "g">>
BLANK  == <<"[", "B", "]">>

JobSpans == {<<1000, 1500>>, <<1500, 2000>>, <<3000, 3500>>}

\* a reference word of the script, with or without its matrix
JobWord(word, span, with_mfcc) ==
    IF with_mfcc
    THEN [word |-> word, start_time |-> span[1], end_time |-> span[2],
          mfcc |-> [type |-> "list",
                    rows |-> PlainMatrix(REF_AMP, 0, MIN_FRAMES + 1, N_MFCC)]]
    ELSE [word |-> word, start_time |-> span[1], end_time |-> span[2]]

JobWordChoices ==
    {JobWord(word, span, with_mfcc) :
        word \in {cat, dog, Bang}, span \in JobSpans, with_mfcc \in BOOLEAN}

\* the scripts of up to MaxJobWords words, and the script of the single word
\* hello from 0.0 to 0.5
JobScripts ==
    {[words |-> w] : w \in {u \in SeqsUpTo(JobWordChoices, MaxJobWords) : Chronological(u)}}
    \cup {[words |-> <<JobWord(hello, <<0, 500>>, with_mfcc)>>] : with_mfcc \in BOOLEAN}

\* the tokens of a recognition: words that open with a space, one that does
\* not, and a punctuation mark
JobTokenChoices ==
    {Token(sp_cat, 100, 450, 90), Token(sp_dog, 500, 950, 80),
     Token(dog, 0, 400, 50), Token(Bang, 960, 1000, 40)}

RECURSIVE JoinTexts(_)
JoinTexts(tokens) ==
    IF tokens = <<>> THEN <<>> ELSE Head(tokens).text \o JoinTexts(Tail(tokens))

\* what speech_to_text returns: no transcription, a blank audio, a
\* transcription with its tokens, one with a words list
JobRecognitions ==
    {[transcription |-> <<>>],
     [transcription |-> <<[text |-> BLANK, tokens |-> <<Token(BLANK, 0, 1000, 100)>>]>>],
     [transcription |-> <<[text |-> sp_cat, tokens |-> <<Token(sp_cat, 100, 450, 90)>>,
                           words |-> <<[word |-> cat, start |-> 0, end |-> 500],
                                       [word |-> Bang, start |-> 500, end |-> 600]>>]>>]}
    \cup {[transcription |-> <<[text |-> JoinTexts(t), tokens |-> t]>>] :
            t \in {u \in SeqsUpTo(JobTokenChoices, MaxJobTokens) :
                      u # <<>> /\ ChronologicalTokens(u)}}

JobInputs ==
    [job_id : {[type |-> "str", rows |-> <<"j", "1">>]}, script_data : JobScripts,
     user_stt_result : JobRecognitions, user_audio : [amp : {REF_AMP}, pattern : {0}]]

Init ==
    /\ pc = "start"
    /\ args \in JobInputs
    /\ ret = NoValue
    /\ locals = UnboundLocals
    /\ webhook = <<>>

Next ==
    \/ SpeechToText
    \/ AnalyzeTimeOverlap
    \/ CompareTexts
    \/ CompareMfcc
    \/ GenerateResults
    \/ PostCompleted
    \/ PostFailed
    \/ Cleanup

Spec == Init /\ [][Next]_vars

\* the records are one per word of the script, record i carrying word i
OnePerReferenceWord(records) ==
    /\ Len(records) = Len(args.script_data.words)
    /\ \A i \in DOMAIN records : records[i].word = args.script_data.words[i].word

\* what the stages of a run have returned so far is one record per
\* reference word in reference order; the time record carries the span of
\* word i, the report entry the status, the time match and the calibrated
\* score of records i
ReturnedRecordsDescribeReferenceWords ==
    /\ Bound("time_matching_results") =>
          /\ OnePerReferenceWord(locals.time_matching_results)
          /\ \A i \in DOMAIN locals.time_matching_results :
                /\ locals.time_matching_results[i].ref_start
                      = locals.reference_segments[i].start_time
                /\ locals.time_matching_results[i].ref_end
                      = locals.reference_segments[i].end_time
    /\ Bound("text_comparison_result") =>
          OnePerReferenceWord(locals.text_comparison_result)
    /\ Bound("mfcc_comparison_result") =>
          OnePerReferenceWord(locals.mfcc_comparison_result)
    /\ Bound("final_results") =>
          LET word_analysis == locals.final_results.report.word_analysis
          IN  /\ OnePerReferenceWord(word_analysis)
              /\ \A i \in DOMAIN word_analysis :
                    /\ word_analysis[i].text_status = locals.text_comparison_result[i].status
                    /\ word_analysis[i].time_match
                          = locals.time_matching_results[i].time_match
                    /\ word_analysis[i].mfcc_similarity
                          = Round3(locals.mfcc_comparison_result[i].adjusted_score)

\* the run has called the stage that binds `name`: it has left the position
\* `at` the stage is called from, with the stage's inputs bound
Called(at, inputs) ==
    /\ pc \notin {"start", at}
    /\ \A name \in inputs : Bound(name)

\* C8: each per-word stage of a scoring run (time matching, text alignment,
\* segment similarity) returns exactly one record per reference word, in
\* reference order, for every reference sequence and every recognized output:
\* once a stage has been called its result is there, and record i of each
\* stage and word_analysis[i] of the report describe reference word i.
C8_EveryStageReturnsOneRecordPerWord ==
    /\ Called("overlap", {"reference_segments", "user_word_timestamps"})
          => Bound("time_matching_results")
    /\ Called("text", {"time_matching_results"}) => Bound("text_comparison_result")
    /\ Called("mfcc", {"text_comparison_result"}) => Bound("mfcc_comparison_result")
    /\ Called("report", {"mfcc_comparison_result"}) => Bound("final_results")
    /\ ReturnedRecordsDescribeReferenceWords

(***************************************************************************)
(* analyze_time_overlap on its own: reference words on a grid of spans and *)
(* user words whose times fall short of, reach and miss the threshold; a   *)
(* user word may lack tokens or a start time.                              *)
(***************************************************************************)

MaxOverlapRefs == 2

MaxOverlapUsers == 2

OverlapRefChoices ==
    {RefSpan(w, t[1], t[2]) : w \in {cat, dog}, t \in {<<0, 500>>, <<500, 1000>>}}

OverlapUserChoices ==
    {RefSpan(w, t[1], t[2]) :
        w \in {cat, CatBang, Bang},
        t \in {<<0, 100>>, <<250, 650>>, <<600, 900>>, <<NONE_TIME, 400>>}}

InitOverlap ==
    /\ pc = "call"
    /\ args \in [reference_words : {r \in SeqsUpTo(OverlapRefChoices, MaxOverlapRefs) :
                                       Chronological(r)},
                 user_word_timestamps : SeqsUpTo(OverlapUserChoices, MaxOverlapUsers)]
    /\ ret = NoValue
    /\ NoRun

CallAnalyzeTimeOverlap ==
    /\ pc = "call"
    /\ pc' = "done"
    /\ ret' = analyze_time_overlap(None, args.reference_words, args.user_word_timestamps,
                                   TIME_THRESHOLD)
    /\ UNCHANGED <<args, run>>

NextOverlap == CallAnalyzeTimeOverlap

SpecOverlap == InitOverlap /\ [][NextOverlap]_vars

\* some recognized word has the first token of the reference word
HasCandidate(ref_word_data, user_word_timestamps) ==
    \E k \in DOMAIN user_word_timestamps :
        Head(normalize_and_tokenize(user_word_timestamps[k].word))
            = Head(normalize_and_tokenize(ref_word_data.word))

\* C11: in every time-match record that analyze_time_overlap returns,
\* overlap_ratio is in [0,1]; user_start is null exactly when the reference
\* word has no candidate among the recognized words, and then user_end is
\* null, time_match is false and overlap_ratio is 0; time_match is true only
\* when there is a candidate and overlap_ratio reaches the threshold.
C11_TimeMatchRecords ==
    (pc = "done" /\ ret.raised = "no") =>
        \A i \in DOMAIN ret.value :
            LET record    == ret.value[i]
                candidate == HasCandidate(args.reference_words[i],
                                          args.user_word_timestamps)
            IN  /\ RLe(<<0, 1>>, record.overlap_ratio)
                /\ RLe(record.overlap_ratio, <<1, 1>>)
                /\ (record.user_start = NONE_TIME) <=> ~candidate
                /\ ~candidate => /\ record.user_end = NONE_TIME
                                 /\ ~record.time_match
                                 /\ REq(record.overlap_ratio, <<0, 1>>)
                /\ record.time_match => /\ candidate
                                        /\ RLe(TIME_THRESHOLD, record.overlap_ratio)

\* two reference words: the first matched in time, the second with a
\* candidate whose overlap is positive and short of the threshold; and a
\* recognized word that is no candidate of either
C11_Witness ==
    /\ pc = "done"
    /\ ret.raised = "no"
    /\ Len(ret.value) = 2
    /\ ret.value[1].time_match
    /\ ~ret.value[2].time_match
    /\ ret.value[2].user_start # NONE_TIME
    /\ RLt(<<0, 1>>, ret.value[2].overlap_ratio)

(***************************************************************************)
(* generate_comprehensive_results on its own: per reference word the text  *)
(* record, the time record and the similarity record of the stages.        *)
(***************************************************************************)

MaxReportWords == 2

\* a text record: passed with the token's probability, failed on the time
\* gates with it, failed on the LCS gate without a confidence
TextRecord(word, kind) ==
    IF kind = "pass" THEN [word |-> word, status |-> "pass",
                           lcs_similarity |-> <<1, 1>>, confidence |-> 90]
    ELSE IF kind = "late" THEN [word |-> word, status |-> "fail",
                                lcs_similarity |-> <<1, 1>>, confidence |-> 55]
    ELSE [word |-> word, status |-> "fail", lcs_similarity |-> <<1, 3>>]

\* a time record: matched, candidate short of the threshold, no candidate
TimeRecord(word, kind) ==
    IF kind = "matched"
    THEN [word |-> word, time_match |-> TRUE, overlap_ratio |-> <<7, 10>>,
          ref_start |-> 0, ref_end |-> 500, user_start |-> 100, user_end |-> 450]
    ELSE IF kind = "short"
    THEN [word |-> word, time_match |-> FALSE, overlap_ratio |-> <<1, 5>>,
          ref_start |-> 0, ref_end |-> 500, user_start |-> 0, user_end |-> 100]
    ELSE [word |-> word, time_match |-> FALSE, overlap_ratio |-> <<0, 1>>,
          ref_start |-> 0, ref_end |-> 500, user_start |-> NONE_TIME,
          user_end |-> NONE_TIME]

\* calibrated scores over 100: 0, just under 0.4, 0.85 and 1
AdjustedScores == {<<0, 1>>, <<3996, 10000>>, <<85, 100>>, <<1, 1>>}

SimilarityRecord(word, adjusted_score) ==
    [word |-> word, similarity |-> 0, adjusted_score |-> adjusted_score]

\* the reference words of the report, by position
ReportWord(i) == IF i % 2 = 1 THEN cat ELSE dog

ReportWordChoices ==
    [text : {"pass", "late", "lcs"}, time : {"matched", "short", "none"},
     adjusted_score : AdjustedScores]

InitReport ==
    /\ pc = "call"
    /\ args \in SeqsUpTo(ReportWordChoices, MaxReportWords)
    /\ ret = NoValue
    /\ NoRun

CallGenerateComprehensiveResults ==
    /\ pc = "call"
    /\ pc' = "done"
    /\ ret' = generate_comprehensive_results(None,
                  [i \in DOMAIN args |-> ReportWord(i)],
                  [i \in DOMAIN args |-> TextRecord(ReportWord(i), args[i].text)],
                  [i \in DOMAIN args |->
                      SimilarityRecord(ReportWord(i), args[i].adjusted_score)],
                  [i \in DOMAIN args |-> TimeRecord(ReportWord(i), args[i].time)])
    /\ UNCHANGED <<args, run>>

NextReport == CallGenerateComprehensiveResults

SpecReport == InitReport /\ [][NextReport]_vars

\* 0.7 * (confidence if the text status is pass, else 0) + 0.3 * calibrated
\* score, as a rational
ClaimedWordScore(choice) ==
    LET text_score == IF choice.text = "pass"
                      THEN TextRecord(cat, choice.text).confidence ELSE 0
    IN  <<7 * text_score * choice.adjusted_score[2] + 3 * 100 * choice.adjusted_score[1],
          10 * 100 * choice.adjusted_score[2]>>

\* C12: for every reference word the report's word_score is
\* 0.7 * (confidence if text_status is pass, else 0) + 0.3 * (calibrated MFCC
\* score of the word's similarity record), to the three decimals of the
\* report; overall_score is the mean of the word scores, to three decimals,
\* and 0 for an empty reference; with confidences in [0,1] every word_score
\* and the overall_score are between 0 and 1, inside the declared [0,100].
C12_WordScoreAndOverall ==
    pc = "done" =>
        /\ \A i \in DOMAIN args :
              /\ ret.word_analysis[i].word_score = Round3(ClaimedWordScore(args[i]))
              /\ ret.word_analysis[i].word_score \in 0 .. 1000
        /\ ret.overall_score =
              IF args = <<>> THEN 0
              ELSE Round3(<<SumSeq([i \in DOMAIN args |-> ret.word_analysis[i].word_score]),
                            1000 * Len(args)>>)
        /\ ret.overall_score \in 0 .. 1000

\* a passed word at confidence 0.9 with calibrated score 0.85 scores 0.885,
\* a failed word with the same calibrated score 0.255; the overall is 0.57
C12_Witness ==
    /\ pc = "done"
    /\ Len(args) = 2
    /\ args[1].text = "pass" /\ args[1].adjusted_score = <<85, 100>>
    /\ args[2].text = "late" /\ args[2].adjusted_score = <<85, 100>>
    /\ ret.word_analysis[1].word_score = 885
    /\ ret.word_analysis[2].word_score = 255
    /\ ret.overall_score = 570

-----------------------------------------------------------------------------
(* scorer.py : calculate_final_score.  Component scores are hundredths of a *)
(* point, the rounded scores of the result tenths.                           *)

\* weights that do not sum to 100
SCORING_WEIGHTS_HEAVY == [pronunciation |-> 50, timing |-> 50, pitch |-> 25]

SCORING_WEIGHTS == [pronunciation |-> 50, timing |-> 25, pitch |-> 25]

\* round(x, 1) of the non-negative rational x, in tenths; a tie goes to the
\* even neighbour
Round1(x) ==
    LET q == (10 * x[1]) \div x[2]
        r == (10 * x[1]) % x[2]
    IN  IF 2 * r > x[2] THEN q + 1
        ELSE IF 2 * r = x[2] THEN q + (q % 2)
        ELSE q

\* dict.get(key, 0)
GetOr(dict, key, default) == IF key \in DOMAIN dict THEN dict[key] ELSE default

\* the weighted sum of line 43-47, as a rational number of points
FinalScore(pronunciation_score, timing_score, pitch_score) ==
    <<pronunciation_score * SCORING_WEIGHTS.pronunciation
         + timing_score * SCORING_WEIGHTS.timing
         + pitch_score * SCORING_WEIGHTS.pitch,
      100 * 100>>

calculate_final_score(comparison_results) ==
    LET overall_scores      == GetOr(comparison_results, "overall_scores", <<>>)
        pronunciation_score == GetOr(overall_scores, "pronunciation_score", 0)
        timing_score        == GetOr(overall_scores, "timing_score", 0)
        pitch_score         == GetOr(overall_scores, "pitch_score", 0)
        final_score == FinalScore(pronunciation_score, timing_score, pitch_score)
    IN  [overall_score |-> Round1(final_score),
         component_scores |->
            [pronunciation_score |-> Round1(<<pronunciation_score, 100>>),
             timing_score        |-> Round1(<<timing_score, 100>>),
             pitch_score         |-> Round1(<<pitch_score, 100>>)],
         weights_used |-> SCORING_WEIGHTS]

\* component scores in [0,100]: 0, 33.33, 60, 80 and 100
ComponentScores == {0, 3333, 6000, 8000, 10000}

ComparisonResults ==
    {[textgrid_analysis |-> <<>>]}
    \cup {[overall_scores |-> o] :
             o \in [pronunciation_score : ComponentScores,
                    timing_score : ComponentScores, pitch_score : ComponentScores]}

InitScore ==
    /\ pc = "call"
    /\ args \in ComparisonResults
    /\ ret = NoValue
    /\ NoRun

CallCalculateFinalScore ==
    /\ pc = "call"
    /\ pc' = "done"
    /\ ret' = calculate_final_score(args)
    /\ UNCHANGED <<args, run>>

NextScore == CallCalculateFinalScore

SpecScore == InitScore /\ [][NextScore]_vars

\* the three component scores of the call, in hundredths
ComponentsOf(comparison_results) ==
    LET o == GetOr(comparison_results, "overall_scores", <<>>)
    IN  {GetOr(o, "pronunciation_score", 0), GetOr(o, "timing_score", 0),
         GetOr(o, "pitch_score", 0)}

\* the three component scores of the result, in tenths
Reported(result) ==
    {result.component_scores.pronunciation_score, result.component_scores.timing_score,
     result.component_scores.pitch_score}

\* C13 as stated: the overall score returned is
\* pronunciation*0.50 + timing*0.25 + pitch*0.25, the weights sum to 100%, and
\* with components in [0,100] the overall score lies between the smallest and
\* the largest component and in [0,100]; 80, 100, 60 give 80.0.
C13_OverallBetweenComponents ==
    pc = "done" =>
        LET components == ComponentsOf(args)
            overall    == 10 * ret.overall_score          \* in hundredths
        IN  /\ SCORING_WEIGHTS.pronunciation + SCORING_WEIGHTS.timing
                  + SCORING_WEIGHTS.pitch = 100
            /\ \E low \in components : low <= overall
            /\ \E high \in components : overall <= high
            /\ overall \in 0 .. 10000
            /\ (GetOr(args, "overall_scores", <<>>)
                   = [pronunciation_score |-> 8000, timing_score |-> 10000,
                      pitch_score |-> 6000]) => ret.overall_score = 800

\* C13, amended: the overall score returned is
\* pronunciation*0.50 + timing*0.25 + pitch*0.25 rounded to one decimal, the
\* weights sum to 100%, and with components in [0,100] it lies between the
\* smallest and the largest component as the result reports them, rounded to
\* one decimal, and in [0,100]; 80, 100, 60 give 80.0.
C13_RoundedOverallBetweenReported ==
    pc = "done" =>
        LET o == GetOr(args, "overall_scores", <<>>)
            p == GetOr(o, "pronunciation_score", 0)
            t == GetOr(o, "timing_score", 0)
            q == GetOr(o, "pitch_score", 0)
        IN  /\ ret.overall_score = Round1(<<50 * p + 25 * t + 25 * q, 10000>>)
            /\ SCORING_WEIGHTS.pronunciation + SCORING_WEIGHTS.timing
                  + SCORING_WEIGHTS.pitch = 100
            /\ \E low \in Reported(ret) : low <= ret.overall_score
            /\ \E high \in Reported(ret) : ret.overall_score <= high
            /\ ret.overall_score \in 0 .. 1000
            /\ (p = 8000 /\ t = 10000 /\ q = 6000) => ret.overall_score = 800

\* pronunciation 80, timing 100, pitch 60 scored 80.0
C13_Witness ==
    /\ pc = "done"
    /\ "overall_scores" \in DOMAIN args
    /\ args.overall_scores
          = [pronunciation_score |-> 8000, timing_score |-> 10000, pitch_score |-> 6000]
    /\ ret.overall_score = 800

-----------------------------------------------------------------------------
(* generate_comprehensive_results : the failure analysis *)

\* the no-signal message printed for any recognition failure
ClassifiedNoSignalOnAnyFailure(stt_failures, reference_words) == stt_failures # <<>>

\* lines 681-688: the utterance is logged as carrying no voice signal
ClassifiedNoSignal(stt_failures, reference_words) ==
    stt_failures # <<>> /\ Len(stt_failures) = Len(reference_words)

\* the reference words of the call at the positions that satisfy keep
ReportWordsWhere(keep(_)) ==
    LET positions == Positions(Len(args), keep)
    IN  [k \in DOMAIN positions |-> ReportWord(positions[k])]

\* what the lists of the failure analysis hold, by the claim: the words
\* without candidate, the words with a candidate and no time match, the words
\* of calibrated similarity below 0.4
ListsAsClaimed ==
    /\ ret.failure_analysis.stt_failures
          = ReportWordsWhere(LAMBDA i : args[i].time = "none")
    /\ ret.failure_analysis.time_failures
          = ReportWordsWhere(LAMBDA i : args[i].time = "short")
    /\ ret.failure_analysis.mfcc_low_quality
          = ReportWordsWhere(LAMBDA i : RLt(args[i].adjusted_score, <<4, 10>>))
    /\ \A i \in DOMAIN args :
          ~ret.word_analysis[i].time_match =>
              (args[i].time = "none") # (args[i].time = "short")

-----------------------------------------------------------------------------
(* The run on a silent recording *)

\* the script is the single word hello from 0.0 to 0.5
HelloScript ==
    /\ Len(args.script_data.words) = 1
    /\ args.script_data.words[1].word = hello
    /\ args.script_data.words[1].start_time = 0
    /\ args.script_data.words[1].end_time = 500

\* the recognition holds no word: no transcription, or control tokens only
NoWordRecognized ==
    \/ args.user_stt_result.transcription = <<>>
    \/ LET transcription == args.user_stt_result.transcription[1]
       IN  /\ "words" \notin DOMAIN transcription
           /\ \A k \in DOMAIN transcription.tokens :
                 IsControlToken(transcription.tokens[k].text)

\* C15: for the script of the single word hello [0.0,0.5] and a recognition
\* without any word, no stage of the run raises, the report has text accuracy
\* 0, time accuracy 0 and stt_failures = [hello], the utterance is classified
\* as no signal, and the run that ends without a failure of the webhook
\* request has posted that report as completed.
C15_SilentHelloCompletes ==
    (HelloScript /\ NoWordRecognized) =>
        /\ locals.exception \in {"", "RequestException"}
        /\ pc \in {"webhook", "finally", "done"} => Bound("final_results")
        /\ Bound("final_results") =>
              LET report == locals.final_results.report
              IN  /\ report.summary.text_accuracy = 0
                  /\ report.summary.time_accuracy = 0
                  /\ report.failure_analysis.stt_failures = <<hello>>
                  /\ ClassifiedNoSignal(report.failure_analysis.stt_failures, <<hello>>)
                  /\ Len(report.word_analysis) = 1
        /\ (pc = "done" /\ locals.exception = "") =>
              webhook = <<[job_id |-> args.job_id, status |-> "completed",
                           result |-> locals.final_results]>>

\* the run on hello and a blank recording has ended with its completed report
C15_Witness ==
    /\ pc = "done"
    /\ HelloScript
    /\ NoWordRecognized
    /\ args.user_stt_result.transcription # <<>>
    /\ locals.exception = ""
    /\ Len(webhook) = 1
    /\ webhook[1].status = "completed"
    /\ webhook[1].result.report.failure_analysis.stt_failures = <<hello>>

-----------------------------------------------------------------------------
(* textgrid_comparator.py : pitch similarity.  Pitch values are hundreds of  *)
(* hertz, similarities and distances thousandths.  What the fastdtw library  *)
(* answers is an input of the call: an exception, the library missing, or a  *)
(* distance.                                                                 *)

\* np.interp(np.linspace(0, 1, min_len), np.linspace(0, 1, len(pitch)), pitch),
\* every value multiplied by min_len - 1
Resampled(pitch, min_len) ==
    [k \in 1 .. min_len |->
        LET at   == (k - 1) * (Len(pitch) - 1)
            idx  == at \div (min_len - 1)
            part == at % (min_len - 1)
        IN  IF part = 0 THEN (min_len - 1) * pitch[idx + 1]
            ELSE (min_len - 1) * pitch[idx + 1] + part * (pitch[idx + 2] - pitch[idx + 1])]

\* x - np.mean(x), every value multiplied by len(x); the division by
\* np.std(x) + 1e-8 scales the vector and leaves a vector of zeros as it is
Centered(x) == [k \in DOMAIN x |-> Len(x) * x[k] - SumTo(x, Len(x))]

\* np.dot
Dot(a, b) == SumTo([k \in DOMAIN a |-> a[k] * b[k]], Len(a))

calculate_simple_pitch_similarity(ref_pitch, user_pitch) ==
    LET min_len == Min(Len(ref_pitch), Len(user_pitch))
    IN  IF min_len < 3 THEN 0
        ELSE LET ref_norm    == Centered(Resampled(ref_pitch, min_len))
                 user_norm   == Centered(Resampled(user_pitch, min_len))
                 dot_product == Dot(ref_norm, user_norm)
                 \* norm_ref * norm_user
                 norms       == ISqrt(Dot(ref_norm, ref_norm) * Dot(user_norm, user_norm))
             IN  IF Dot(ref_norm, ref_norm) = 0 \/ Dot(user_norm, user_norm) = 0 THEN 0
                 ELSE LET similarity == (dot_product * ONE) \div norms
                      IN  Max(0, (similarity + ONE) \div 2)

\* calculate_dtw_pitch_similarity without the floor at 0.0
calculate_dtw_pitch_similarity_unfloored(ref_pitch, user_pitch, fastdtw) ==
    IF fastdtw.raised = "ImportError"
    THEN calculate_simple_pitch_similarity(ref_pitch, user_pitch)
    ELSE IF Len(ref_pitch) < 3 \/ Len(user_pitch) < 3 THEN 0
    ELSE IF fastdtw.raised # "no"
    THEN calculate_simple_pitch_similarity(ref_pitch, user_pitch)
    ELSE ONE - fastdtw.value \div Max(Len(ref_pitch), Len(user_pitch))

\* fastdtw: what the library does in this call
calculate_dtw_pitch_similarity(ref_pitch, user_pitch, fastdtw) ==
    IF fastdtw.raised = "ImportError"
    THEN calculate_simple_pitch_similarity(ref_pitch, user_pitch)
    ELSE IF Len(ref_pitch) < 3 \/ Len(user_pitch) < 3 THEN 0
    ELSE IF fastdtw.raised # "no"
    THEN calculate_simple_pitch_similarity(ref_pitch, user_pitch)
    ELSE LET distance   == fastdtw.value
             max_len    == Max(Len(ref_pitch), Len(user_pitch))
             similarity == Max(0, ONE - distance \div max_len)
         IN  similarity

MaxPitchLen == 4

\* voiced pitch values: 100 Hz and 200 Hz
PitchValues == {1, 2}

\* distances of 0, 1.5, 4 and 9
DtwOutcomes ==
    {[raised |-> e, value |-> 0] : e \in {"ImportError", "ValueError"}}
    \cup {Ok(distance) : distance \in {0, 1500, 4000, 9000}}

InitDtw ==
    /\ pc = "call"
    /\ args \in [ref_pitch : SeqsUpTo(PitchValues, MaxPitchLen),
                 user_pitch : SeqsUpTo(PitchValues, MaxPitchLen),
                 fastdtw : DtwOutcomes]
    /\ ret = NoValue
    /\ NoRun

CallCalculateDtwPitchSimilarity ==
    /\ pc = "call"
    /\ pc' = "done"
    /\ ret' = calculate_dtw_pitch_similarity(args.ref_pitch, args.user_pitch, args.fastdtw)
    /\ UNCHANGED <<args, run>>

NextDtw == CallCalculateDtwPitchSimilarity

SpecDtw == InitDtw /\ [][NextDtw]_vars

\* C17: calculate_dtw_pitch_similarity always returns a value in [0,1]: 0.0
\* when either sequence has fewer than 3 points, max(0, 1 - distance/max(len))
\* when DTW succeeds, and on a failure of the DTW path the result of the
\* cosine fallback, which is itself in [0,1].
C17_DtwSimilarityInUnitRange ==
    pc = "done" =>
        LET short   == Len(args.ref_pitch) < 3 \/ Len(args.user_pitch) < 3
            max_len == Max(Len(args.ref_pitch), Len(args.user_pitch))
            cosine  == calculate_simple_pitch_similarity(args.ref_pitch, args.user_pitch)
        IN  /\ ret \in 0 .. ONE
            /\ cosine \in 0 .. ONE
            /\ short => ret = 0
            /\ (~short /\ args.fastdtw.raised = "no") =>
                  ret = Max(0, ONE - args.fastdtw.value \div max_len)
            /\ args.fastdtw.raised # "no" => ret = cosine

\* DTW succeeded on three against four points at distance 1.5: 1 - 1.5/4
C17_Witness ==
    /\ pc = "done"
    /\ Len(args.ref_pitch) = 3
    /\ Len(args.user_pitch) = 4
    /\ args.fastdtw = Ok(1500)
    /\ ret = 625

-----------------------------------------------------------------------------
(* textgrid_comparator.py : analyze_pitch_similarity.  Times are             *)
(* milliseconds; the hz of an unvoiced frame is None (NONE_HZ) or 0.         *)

NONE_HZ == -1

\* similarity = None
NONE_SIMILARITY == -1

extract_pitch_segment_safe(pitch_data, start, end) ==
    LET kept == SelectSeq(pitch_data,
                    LAMBDA p : start <= p.time /\ p.time <= end
                               /\ p.hz # NONE_HZ /\ p.hz > 0)
    IN  [k \in DOMAIN kept |-> kept[k].hz]

\* len(ref_segment) > 5 and len(user_segment) > 5
MIN_POINTS == 5

\* lines 361-382 for one segment; fastdtw is what the library does for it
SegmentPitchSimilarity(ref_pitch_data, user_pitch_data, segment, fastdtw) ==
    LET ref_segment  == extract_pitch_segment_safe(ref_pitch_data, segment.start, segment.end)
        user_segment == extract_pitch_segment_safe(user_pitch_data, segment.start, segment.end)
    IN  IF Len(ref_segment) > MIN_POINTS /\ Len(user_segment) > MIN_POINTS
        THEN calculate_dtw_pitch_similarity(ref_segment, user_segment, fastdtw)
        ELSE NONE_SIMILARITY

\* analyze_pitch_similarity dividing the sum by the number of segments
analyze_pitch_similarity_over_all(ref_loaded, user_loaded, segments, fastdtw) ==
    IF ref_loaded.raised # "no" \/ user_loaded.raised # "no"
    THEN [pitch_similarity |-> 0, segment_details |-> <<>>]
    ELSE LET similarity == [i \in DOMAIN segments |->
                               SegmentPitchSimilarity(ref_loaded.value, user_loaded.value,
                                                      segments[i], fastdtw[i])]
             similarities == SelectSeq(similarity, LAMBDA x : x # NONE_SIMILARITY)
         IN  [pitch_similarity |->
                 IF segments # <<>>
                 THEN Round3(<<SumSeq(similarities), 1000 * Len(segments)>>) ELSE 0,
              segment_details |->
                 [i \in DOMAIN segments |->
                     [text |-> segments[i].text, start |-> segments[i].start,
                      end |-> segments[i].end, similarity |-> similarity[i]]]]

\* ref_loaded, user_loaded: what load_pitch_data returns or raises for the
\* two pitch files; fastdtw: what the library does for each segment
analyze_pitch_similarity(ref_loaded, user_loaded, segments, fastdtw) ==
    IF ref_loaded.raised # "no" \/ user_loaded.raised # "no"
    THEN [pitch_similarity |-> 0, segment_details |-> <<>>]
    ELSE LET similarity == [i \in DOMAIN segments |->
                               SegmentPitchSimilarity(ref_loaded.value, user_loaded.value,
                                                      segments[i], fastdtw[i])]
             similarities == SelectSeq(similarity, LAMBDA x : x # NONE_SIMILARITY)
             \* sum(similarities) / len(similarities) if similarities else 0
             avg_similarity == IF similarities # <<>>
                               THEN <<SumSeq(similarities), 1000 * Len(similarities)>>
                               ELSE <<0, 1>>
         IN  [pitch_similarity |-> Round3(avg_similarity),
              segment_details |->
                 [i \in DOMAIN segments |->
                     [text |-> segments[i].text, start |-> segments[i].start,
                      end |-> segments[i].end, similarity |-> similarity[i]]]]

MaxPitchSegments == 2

\* the frames of a track are 10 ms apart
TIME_STEP == 10

\* a segment takes 100 ms of the track, its window the first 60 ms of them
SEGMENT_FRAMES == 10

WINDOW_FRAMES == 7

PitchSegment(i) ==
    [text |-> ReportWord(i), start |-> (i - 1) * SEGMENT_FRAMES * TIME_STEP,
     end |-> ((i - 1) * SEGMENT_FRAMES + WINDOW_FRAMES - 1) * TIME_STEP]

\* a track over the segments: in the window of segment i the first voiced[i]
\* frames carry a pitch, the others None or 0; the frames after the window
\* are voiced
PitchTrack(voiced, contour) ==
    [f \in 1 .. Len(voiced) * SEGMENT_FRAMES |->
        LET i == (f - 1) \div SEGMENT_FRAMES + 1
            k == (f - 1) % SEGMENT_FRAMES
        IN  [time |-> (f - 1) * TIME_STEP,
             hz |-> IF k >= WINDOW_FRAMES THEN 2
                    ELSE IF k < voiced[i] THEN 1 + ((k \div contour) % 2)
                    ELSE IF k % 2 = 0 THEN NONE_HZ ELSE 0]]

\* per segment: the voiced frames of the two sides and the library's answer
PitchSegmentChoices ==
    [ref_voiced : {5, 6}, user_voiced : {0, 6, 7},
     fastdtw : {[raised |-> "ValueError", value |-> 0], Ok(1500)}]

InitPitch ==
    /\ pc = "call"
    /\ args \in [segments : SeqsUpTo(PitchSegmentChoices, MaxPitchSegments),
                 user_loaded : BOOLEAN]
    /\ ret = NoValue
    /\ NoRun

CallAnalyzePitchSimilarity ==
    /\ pc = "call"
    /\ pc' = "done"
    /\ ret' = analyze_pitch_similarity(
                  Ok(PitchTrack([i \in DOMAIN args.segments |-> args.segments[i].ref_voiced], 1)),
                  IF args.user_loaded
                  THEN Ok(PitchTrack([i \in DOMAIN args.segments |->
                                         args.segments[i].user_voiced], 2))
                  ELSE Raise("FileNotFoundError"),
                  [i \in DOMAIN args.segments |-> PitchSegment(i)],
                  [i \in DOMAIN args.segments |-> args.segments[i].fastdtw])
    /\ UNCHANGED <<args, run>>

NextPitch == CallAnalyzePitchSimilarity

SpecPitch == InitPitch /\ [][NextPitch]_vars

\* both sides of segment i have more than 5 voiced points in its window
EnoughVoiced(i) == args.segments[i].ref_voiced > 5 /\ args.segments[i].user_voiced > 5

\* C16: in analyze_pitch_similarity a segment's similarity is computed only
\* when both the reference and the user side have more than 5 voiced pitch
\* points inside [start,end], and is null otherwise; the aggregate is the
\* mean over the non-null segments only, 0 when there are none.
C16_NullSegmentsExcluded ==
    (pc = "done" /\ args.user_loaded) =>
        LET details  == ret.segment_details
            computed == {i \in DOMAIN details : details[i].similarity # NONE_SIMILARITY}
            total    == SumSeq([i \in DOMAIN details |->
                                   IF i \in computed THEN details[i].similarity ELSE 0])
        IN  /\ Len(details) = Len(args.segments)
            /\ computed = {i \in DOMAIN args.segments : EnoughVoiced(i)}
            /\ \A i \in computed : details[i].similarity \in 0 .. ONE
            /\ ret.pitch_similarity =
                  IF computed = {} THEN 0
                  ELSE Round3(<<total, 1000 * Cardinality(computed)>>)

\* a segment with 5 voiced reference points is null and the other, computed
\* from 6 and 7 points at distance 1.5 as 0.786, is the aggregate
C16_Witness ==
    /\ pc = "done"
    /\ args.user_loaded
    /\ Len(args.segments) = 2
    /\ args.segments[1].ref_voiced = 5 /\ args.segments[1].user_voiced = 7
    /\ args.segments[2] = [ref_voiced |-> 6, user_voiced |-> 7, fastdtw |-> Ok(1500)]
    /\ ret.segment_details[1].similarity = NONE_SIMILARITY
    /\ ret.segment_details[2].similarity = 786
    /\ ret.pitch_similarity = 786

-----------------------------------------------------------------------------
(* textgrid_comparator.py : parse_textgrid and compare_textgrids.  A line of *)
(* the document is the record of what the parser looks for in it: the kind   *)
(* of the line, the text after the equals sign, the number float() makes of  *)
(* it.  Times are milliseconds.                                              *)

\* the number of a line on which float() raises ValueError
UNPARSABLE == -1

Line(kind, text, number) == [kind |-> kind, text |-> text, number |-> number]

\* current_interval[key] = value
Put(dict, key, value) ==
    [k \in DOMAIN dict \cup {key} |-> IF k = key THEN value ELSE dict[k]]

\* intervals.append(current_interval) under `if current_interval:`
AppendIfAny(intervals, current_interval) ==
    IF current_interval # <<>> THEN Append(intervals, current_interval) ELSE intervals

\* the loop of lines 51-76 and the append of lines 79-80
RECURSIVE ParseLines(_, _, _, _)
ParseLines(lines, in_phones_tier, current_interval, intervals) ==
    IF lines = <<>> THEN Ok(AppendIfAny(intervals, current_interval))
    ELSE LET line == Head(lines)
         IN  IF line.kind = "name" /\ line.text = "phones"
             THEN ParseLines(Tail(lines), TRUE, current_interval, intervals)
             ELSE IF in_phones_tier /\ line.kind = "intervals"
             THEN ParseLines(Tail(lines), TRUE, <<>>,
                             AppendIfAny(intervals, current_interval))
             ELSE IF in_phones_tier /\ line.kind \in {"xmin", "xmax"}
                     /\ line.number = UNPARSABLE
             THEN Raise("ValueError")
             ELSE IF in_phones_tier /\ line.kind = "xmin"
             THEN ParseLines(Tail(lines), TRUE,
                             Put(current_interval, "start", line.number), intervals)
             ELSE IF in_phones_tier /\ line.kind = "xmax"
             THEN ParseLines(Tail(lines), TRUE,
                             Put(current_interval, "end", line.number), intervals)
             ELSE IF in_phones_tier /\ line.kind = "text"
             THEN ParseLines(Tail(lines), TRUE,
                             Put(current_interval, "phone", line.text), intervals)
             ELSE IF in_phones_tier /\ line.kind = "name"
             \* another tier: the interval is appended, the loop is left and
             \* the interval is appended once more after it
             THEN Ok(AppendIfAny(AppendIfAny(intervals, current_interval),
                                 current_interval))
             ELSE ParseLines(Tail(lines), in_phones_tier, current_interval, intervals)

\* what every failure of the parse returns
EmptyTextgrid == [intervals |-> <<>>, total_duration |-> 0]

\* document: the lines read from the path, or the exception of open()
parse_textgrid(document) ==
    IF document.raised # "no" THEN EmptyTextgrid
    ELSE LET parsed == ParseLines(document.value, FALSE, <<>>, <<>>)
         IN  IF parsed.raised # "no" THEN EmptyTextgrid
             ELSE LET intervals == parsed.value
                  IN  IF intervals = <<>> THEN EmptyTextgrid
                      ELSE IF "end" \notin DOMAIN intervals[Len(intervals)]
                      THEN EmptyTextgrid                        \* KeyError
                      ELSE [intervals |-> intervals,
                            total_duration |-> intervals[Len(intervals)].end]

\* returns the accuracy as a rational, or raises KeyError
calculate_timing_accuracy(ref_intervals, user_intervals) ==
    IF ref_intervals = <<>> \/ user_intervals = <<>> THEN Ok(<<0, 1>>)
    ELSE IF "start" \notin DOMAIN ref_intervals[1]
            \/ "end" \notin DOMAIN ref_intervals[Len(ref_intervals)]
            \/ "start" \notin DOMAIN user_intervals[1]
            \/ "end" \notin DOMAIN user_intervals[Len(user_intervals)]
    THEN Raise("KeyError")
    ELSE LET ref_duration  == ref_intervals[Len(ref_intervals)].end - ref_intervals[1].start
             user_duration == user_intervals[Len(user_intervals)].end
                                 - user_intervals[1].start
         IN  IF ref_duration > 0
             \* max(0, 1 - abs(ref_duration - user_duration) / ref_duration)
             THEN Ok(<<Max(0, ref_duration - Abs(ref_duration - user_duration)),
                       ref_duration>>)
             ELSE Ok(<<0, 1>>)

\* [interval['phone'] for interval in intervals if interval.get('phone')]
PhonesOf(intervals) ==
    LET with_phone == SelectSeq(intervals,
                          LAMBDA interval : "phone" \in DOMAIN interval
                                            /\ interval.phone # "")
    IN  [k \in DOMAIN with_phone |-> with_phone[k].phone]

\* compare_textgrids counting the matches of the user's phones anywhere in
\* the reference
compare_textgrids_any_position(reference_textgrid, user_textgrid) ==
    LET ref_data    == parse_textgrid(reference_textgrid)
        user_data   == parse_textgrid(user_textgrid)
        ref_phones  == PhonesOf(ref_data.intervals)
        user_phones == PhonesOf(user_data.intervals)
        matched_phones ==
            Cardinality({i \in DOMAIN user_phones :
                            \E k \in DOMAIN ref_phones : ref_phones[k] = user_phones[i]})
        timing_accuracy == calculate_timing_accuracy(ref_data.intervals, user_data.intervals)
    IN  IF timing_accuracy.raised # "no" THEN Raise(timing_accuracy.raised)
        ELSE Ok([pronunciation_accuracy |->
                    IF Len(ref_phones) > 0
                    THEN Round3(<<matched_phones, Len(ref_phones)>>) ELSE 0,
                 timing_accuracy |-> Round3(timing_accuracy.value),
                 reference_phones |-> Len(ref_phones),
                 user_phones |-> Len(user_phones),
                 matched_phones |-> matched_phones,
                 reference_duration |-> ref_data.total_duration,
                 user_duration |-> user_data.total_duration])

\* returns the result, or raises what calculate_timing_accuracy raises
compare_textgrids(reference_textgrid, user_textgrid) ==
    LET ref_data    == parse_textgrid(reference_textgrid)
        user_data   == parse_textgrid(user_textgrid)
        ref_phones  == PhonesOf(ref_data.intervals)
        user_phones == PhonesOf(user_data.intervals)
        total_phones == Len(ref_phones)
        min_length  == Min(Len(ref_phones), Len(user_phones))
        matched_phones ==
            Cardinality({i \in 1 .. min_length : ref_phones[i] = user_phones[i]})
        timing_accuracy == calculate_timing_accuracy(ref_data.intervals, user_data.intervals)
    IN  IF timing_accuracy.raised # "no" THEN Raise(timing_accuracy.raised)
        ELSE Ok([pronunciation_accuracy |->
                    IF total_phones > 0
                    THEN Round3(<<matched_phones, total_phones>>) ELSE 0,
                 timing_accuracy |-> Round3(timing_accuracy.value),
                 reference_phones |-> Len(ref_phones),
                 user_phones |-> Len(user_phones),
                 matched_phones |-> matched_phones,
                 reference_duration |-> ref_data.total_duration,
                 user_duration |-> user_data.total_duration])

(* Documents.  A profile is the shape of the document and the phones tier's  *)
(* intervals, each a phone and a length; interval k starts where interval    *)
(* k - 1 ends.                                                               *)

MaxPhones == 2

PhoneInterval(phone, length) == [phone |-> phone, length |-> length]

PhoneIntervalChoices ==
    {PhoneInterval(phone, length) : phone \in {"a", "b"}, length \in {100, 200}}
        \cup {PhoneInterval("", 100)}

\* the time at which the first k intervals end
RECURSIVE EndOf(_, _)
EndOf(intervals, k) == IF k = 0 THEN 0 ELSE EndOf(intervals, k - 1) + intervals[k].length

\* the lines of interval k; `drop` is the line the document lacks
IntervalLines(intervals, k, drop) ==
    SelectSeq(<<Line("intervals", "", 0),
                Line("xmin", "", EndOf(intervals, k - 1)),
                Line("xmax", "", EndOf(intervals, k)),
                Line("text", intervals[k].phone, 0)>>,
              LAMBDA line : line.kind # drop)

RECURSIVE Concat(_)
Concat(seqs) == IF seqs = <<>> THEN <<>> ELSE Head(seqs) \o Concat(Tail(seqs))

\* the header of the file and the words tier, which the parser passes over
FileHeader ==
    <<Line("other", "ooTextFile", 0), Line("xmin", "", 0), Line("xmax", "", 300),
      Line("name", "words", 0), Line("intervals", "", 0), Line("text", "cat", 0)>>

\* the header of the phones tier
TierHeader(intervals) ==
    <<Line("name", "phones", 0), Line("xmin", "", 0),
      Line("xmax", "", EndOf(intervals, Len(intervals))), Line("other", "intervals: size", 0)>>

AllIntervalLines(intervals) ==
    Concat([k \in DOMAIN intervals |-> IntervalLines(intervals, k, "none")])

Document(profile) ==
    LET intervals == profile.intervals
        last      == Len(intervals)
    IN  CASE profile.shape = "unreadable" -> Raise("OSError")
          \* what the aligner writes: the words tier, then the phones tier
          [] profile.shape = "tier" ->
                Ok(FileHeader \o TierHeader(intervals) \o AllIntervalLines(intervals))
          \* the phones tier before another tier
          [] profile.shape = "phones_first" ->
                Ok(TierHeader(intervals) \o AllIntervalLines(intervals)
                     \o <<Line("name", "words", 0), Line("xmin", "", 0)>>)
          [] profile.shape = "no_phones_tier" -> Ok(FileHeader)
          \* the document ends before the xmax of its last interval
          [] profile.shape = "truncated" ->
                Ok(FileHeader \o TierHeader(intervals)
                     \o Concat([k \in DOMAIN intervals |->
                                   IF k = last
                                   THEN SubSeq(IntervalLines(intervals, k, "none"), 1, 2)
                                   ELSE IntervalLines(intervals, k, "none")]))
          \* a number that float() rejects
          [] profile.shape = "bad_number" ->
                Ok(FileHeader \o TierHeader(intervals) \o AllIntervalLines(intervals)
                     \o <<Line("xmax", "", UNPARSABLE)>>)
          \* the lines of the tier and of the first interval before its text are lost
          [] profile.shape = "headless" ->
                Ok(<<Line("name", "phones", 0)>>
                     \o Concat([k \in DOMAIN intervals |->
                                   IF k = 1
                                   THEN SubSeq(IntervalLines(intervals, k, "none"), 4, 4)
                                   ELSE IntervalLines(intervals, k, "none")]))

DamagedShapes ==
    {"unreadable", "phones_first", "no_phones_tier", "truncated", "bad_number", "headless"}

DamagedIntervals == <<PhoneInterval("a", 100), PhoneInterval("b", 200)>>

DocumentProfiles ==
    {[shape |-> "tier", intervals |-> intervals] :
        intervals \in SeqsUpTo(PhoneIntervalChoices, MaxPhones)}
      \cup {[shape |-> shape, intervals |-> DamagedIntervals] : shape \in DamagedShapes}

InitTextgrid ==
    /\ pc = "call"
    /\ args \in [reference : DocumentProfiles, user : DocumentProfiles]
    /\ ret = NoValue
    /\ NoRun

CallCompareTextgrids ==
    /\ pc = "call"
    /\ pc' = "done"
    /\ ret' = compare_textgrids(Document(args.reference), Document(args.user))
    /\ UNCHANGED <<args, run>>

NextTextgrid == CallCompareTextgrids

SpecTextgrid == InitTextgrid /\ [][NextTextgrid]_vars

\* the phones a document of the aligner holds: the texts that are not empty
ProfilePhones(profile) ==
    LET spoken == SelectSeq(profile.intervals, LAMBDA interval : interval.phone # "")
    IN  [k \in DOMAIN spoken |-> spoken[k].phone]

\* the time between the start of its first interval and the end of its last
ProfileDuration(profile) == EndOf(profile.intervals, Len(profile.intervals))

\* C18: a result of compare_textgrids has both accuracies in [0, 1] and no
\* more matched phones than either document has phones; for two documents as
\* the aligner writes them, matched_phones counts the positions
\* i < min(len(refPhones), len(userPhones)) at which the phones are equal,
\* pronunciation_accuracy is that count over len(refPhones) and
\* timing_accuracy is max(0, 1 - |refDuration - userDuration| / refDuration),
\* each rounded to three decimals and 0 where the divisor is 0.
C18_Accuracies ==
    (pc = "done" /\ ret.raised = "no") =>
        LET result == ret.value
        IN  /\ result.pronunciation_accuracy \in 0 .. ONE
            /\ result.timing_accuracy \in 0 .. ONE
            /\ result.matched_phones <= result.reference_phones
            /\ result.matched_phones <= result.user_phones
            /\ (args.reference.shape = "tier" /\ args.user.shape = "tier") =>
                  LET refPhones    == ProfilePhones(args.reference)
                      userPhones   == ProfilePhones(args.user)
                      refDuration  == ProfileDuration(args.reference)
                      userDuration == ProfileDuration(args.user)
                      matches == {i \in 1 .. Min(Len(refPhones), Len(userPhones)) :
                                     refPhones[i] = userPhones[i]}
                  IN  /\ result.reference_phones = Len(refPhones)
                      /\ result.user_phones = Len(userPhones)
                      /\ result.matched_phones = Cardinality(matches)
                      /\ result.pronunciation_accuracy =
                            IF Len(refPhones) = 0 THEN 0
                            ELSE Round3(<<Cardinality(matches), Len(refPhones)>>)
                      /\ result.timing_accuracy =
                            IF refDuration = 0 THEN 0
                            ELSE IF Abs(refDuration - userDuration) >= refDuration THEN 0
                            ELSE Round3(<<refDuration - Abs(refDuration - userDuration),
                                          refDuration>>)

\* two phones against one, twice as long: one match of two, 200 ms for 300 ms
C18_Witness ==
    /\ pc = "done"
    /\ args.reference = [shape |-> "tier", intervals |-> DamagedIntervals]
    /\ args.user = [shape |-> "tier", intervals |-> <<PhoneInterval("a", 200)>>]
    /\ ret.raised = "no"
    /\ ret.value.matched_phones = 1
    /\ ret.value.pronunciation_accuracy = 500
    /\ ret.value.timing_accuracy = 667

\* C19: compare_textgrids never raises; parse_textgrid returns no interval and
\* total_duration 0 for a document that is unreadable, truncated, without a
\* phones tier or otherwise malformed, and compare_textgrids then returns
\* both accuracies 0; a reference without phones gives pronunciation accuracy
\* 0 and a reference of duration 0 gives timing accuracy 0.
C19_MalformedInputNeverRaises ==
    pc = "done" =>
        /\ ret.raised = "no"
        /\ \A side \in {"reference", "user"} :
              args[side].shape \notin {"tier", "phones_first"} =>
                  /\ parse_textgrid(Document(args[side])) = EmptyTextgrid
                  /\ ret.value.pronunciation_accuracy = 0
                  /\ ret.value.timing_accuracy = 0
        /\ ret.value.reference_phones = 0 => ret.value.pronunciation_accuracy = 0
        /\ ret.value.reference_duration = 0 => ret.value.timing_accuracy = 0

-----------------------------------------------------------------------------
\* C20: in a scoring run on a script that has words, no failure that
\* concerns one word aborts the job: the only exception of the run is that of
\* the webhook request; the report covers every reference word; a reference
\* word that cannot be tokenized is recorded as not matched in time with
\* overlap ratio 0 and a reference word without MFCC with similarity 0; and
\* the run that ends without a failure of the webhook request has posted the
\* completed report.
C20_PerWordFailuresIsolated ==
    LET words == args.script_data.words
    IN  words # <<>> =>
        /\ locals.exception \in {"", "RequestException"}
        /\ Bound("final_results") =>
              LET word_analysis == locals.final_results.report.word_analysis
              IN  /\ Len(word_analysis) = Len(words)
                  /\ \A i \in DOMAIN words :
                        /\ HasNoToken(words[i].word) =>
                              /\ ~word_analysis[i].time_match
                              /\ word_analysis[i].overlap_ratio = 0
                        /\ "mfcc" \notin DOMAIN words[i] =>
                              word_analysis[i].mfcc_similarity = 0
        /\ pc \in {"webhook", "finally", "done"} => Bound("final_results")
        /\ (pc = "done" /\ locals.exception = "") =>
              webhook = <<[job_id |-> args.job_id, status |-> "completed",
                           result |-> locals.final_results]>>

-----------------------------------------------------------------------------
(* text_similarity.py : normalize_segments_to_zero as a call on a list       *)
(* object.  The result of the call is the returned value, whether the        *)
(* returned list is the argument itself, and the argument as the call leaves *)
(* it.  The run re-applies the function to what it returned, as compare_texts *)
(* does to the reference segments of the pipeline.                           *)

MaxNormSegments == 3

NormSegmentChoices ==
    {RefSpan(cat, s, s + length) : s \in {0, 250, 1000}, length \in {0, 250}}

\* line 43-44 returns the argument; lines 47-53 build and return another list
ReturnsItsArgument(segments) == segments = <<>>

CallOf_normalize_segments_to_zero(segments) ==
    [value |-> normalize_segments_to_zero(segments),
     is_argument |-> ReturnsItsArgument(segments),
     \* no statement of the function assigns to segments or to one of its dicts
     argument_after |-> segments]

InitNormalize ==
    /\ pc = "call"
    /\ args \in SeqsUpTo(NormSegmentChoices, MaxNormSegments)
    /\ ret = NoValue
    /\ NoRun

\* pronunciation.py line 306
CallNormalizeSegmentsToZero ==
    /\ pc = "call"
    /\ pc' = "done"
    /\ ret' = CallOf_normalize_segments_to_zero(args)
    /\ UNCHANGED <<args, run>>

\* text_similarity.py line 80, on the segments the pipeline has normalized
NormalizeAgain ==
    /\ pc = "done"
    /\ pc' = "again"
    /\ ret' = CallOf_normalize_segments_to_zero(ret.value)
    /\ UNCHANGED <<args, run>>

NextNormalize == CallNormalizeSegmentsToZero \/ NormalizeAgain

SpecNormalize == InitNormalize /\ [][NextNormalize]_vars

\* the returned value has the length of the segments and every time of it is
\* the segment's time minus the first segment's start_time
ShiftedToZero(segments, value) ==
    /\ Len(value) = Len(segments)
    /\ \A i \in DOMAIN segments :
          /\ value[i].word = segments[i].word
          /\ value[i].start_time = segments[i].start_time - segments[1].start_time
          /\ value[i].end_time = segments[i].end_time - segments[1].start_time
    /\ segments # <<>> => value[1].start_time = 0
    /\ \A i \in DOMAIN segments :
          value[i].end_time - value[i].start_time
              = segments[i].end_time - segments[i].start_time
    /\ \A i \in 1 .. Len(segments) - 1 :
          value[i + 1].start_time - value[i].end_time
              = segments[i + 1].start_time - segments[i].end_time

\* C21 as stated: the call returns a new sequence, of the same length and
\* shifted by the first start_time, leaves its argument unchanged, and applied
\* to its own output returns an equal sequence, whose offset for the segment
\* scorer is 0.
C21_NormalizeReturnsNewShiftedSequence ==
    /\ pc = "done" =>
          /\ ~ret.is_argument
          /\ ShiftedToZero(args, ret.value)
          /\ ret.argument_after = args
    /\ pc = "again" =>
          /\ ret.value = normalize_segments_to_zero(args)
          /\ ret.argument_after = ret.value
          /\ SegmentOffset(ret.value) = 0

\* C21: the call on a sequence that is not empty returns a new sequence, and
\* the call on the empty sequence returns its argument; the returned sequence
\* has the same length and is shifted by the first start_time, the argument is
\* left unchanged, and the function applied to its own output returns an equal
\* sequence, whose offset for the segment scorer is 0.
C21_NormalizeShiftsAndIsIdempotent ==
    /\ pc = "done" =>
          /\ ret.is_argument <=> args = <<>>
          /\ ShiftedToZero(args, ret.value)
          /\ ret.argument_after = args
    /\ pc = "again" =>
          /\ ret.value = normalize_segments_to_zero(args)
          /\ ret.argument_after = ret.value
          /\ SegmentOffset(ret.value) = 0

\* spans from 1.0 s: the second call returns the spans from 0 once more
C21_Witness ==
    /\ pc = "again"
    /\ args = <<RefSpan(cat, 1000, 1250), RefSpan(cat, 1000, 1000), RefSpan(cat, 250, 500)>>
    /\ ret.value = <<RefSpan(cat, 0, 250), RefSpan(cat, 0, 0), RefSpan(cat, -750, -500)>>
    /\ ~ret.is_argument

-----------------------------------------------------------------------------
(* The notifications of a scoring run *)

\* C25: every notification of a run carries the job's id and the status
\* completed or failed; a completed one carries the final report, a failed one
\* an error message and the processing time elapsed so far.
C25_NotificationPayloads ==
    \A k \in DOMAIN webhook :
        /\ webhook[k].job_id = args.job_id
        /\ webhook[k].status \in {"completed", "failed"}
        /\ webhook[k].status = "completed" =>
              /\ "result" \in DOMAIN webhook[k]
              /\ webhook[k].result = locals.final_results
        /\ webhook[k].status = "failed" =>
              /\ "error" \in DOMAIN webhook[k]
              /\ "processing_time" \in DOMAIN webhook[k]

\* C26: a run issues one notification request and no more: when it has ended
\* it has posted exactly once, and at no time has it posted twice.
C26_SingleNotificationRequest ==
    /\ Len(webhook) <= 1
    /\ pc = "done" => Len(webhook) = 1

-----------------------------------------------------------------------------
\* the tokens that are neither control tokens nor pure punctuation
MergedTokens(tokens) ==
    SelectSeq(tokens, LAMBDA token : ~IsControlToken(token.text)
                                     /\ ~IsPurePunctuation(token.text))

\* the texts of tokens i .. j, stripped and joined
RECURSIVE JoinStripped(_, _, _)
JoinStripped(tokens, i, j) ==
    IF i > j THEN <<>> ELSE Strip(tokens[i].text) \o JoinStripped(tokens, i + 1, j)

\* C27: the words extract_word_timestamps returns in a scoring run: a words
\* list that is not empty takes precedence over the tokens; otherwise every
\* word is the join of consecutive merged tokens, the first of which is the
\* only one that starts with a space, has the non-null start_time of that
\* first token and the end_time of the last, start_time <= end_time, and the
\* words are in token order.
C27_MergedWords ==
    (Bound("user_word_timestamps") /\ args.user_stt_result.transcription # <<>>
     /\ locals.user_word_timestamps # <<>>) =>
        LET transcription == args.user_stt_result.transcription[1]
            words  == locals.user_word_timestamps
            tokens == MergedTokens(transcription.tokens)
        IN  IF "words" \in DOMAIN transcription /\ transcription.words # <<>>
            THEN words = WordsOfList(transcription.words)
            ELSE /\ \A k \in DOMAIN words :
                       /\ words[k].start_time # NONE_TIME
                       /\ words[k].start_time <= words[k].end_time
                       /\ \E i \in DOMAIN tokens : \E j \in i .. Len(tokens) :
                             /\ Head(tokens[i].text) = " "
                             /\ \A m \in i + 1 .. j : Head(tokens[m].text) # " "
                             /\ words[k].word = JoinStripped(tokens, i, j)
                             /\ words[k].start_time = parse_time(tokens[i].timestamps.from)
                             /\ words[k].end_time = parse_time(tokens[j].timestamps.to)
                 /\ \A k \in 1 .. Len(words) - 1 :
                       words[k].end_time <= words[k + 1].start_time

-----------------------------------------------------------------------------
(* parse_textgrid on well-formed documents: the phones tier after the words  *)
(* tier, as the aligner writes it, or before another tier.                   *)

WellFormedProfiles ==
    {[shape |-> shape, intervals |-> intervals] :
        shape \in {"tier", "phones_first"},
        intervals \in SeqsUpTo(PhoneIntervalChoices, MaxPhones)}

InitParse ==
    /\ pc = "call"
    /\ args \in WellFormedProfiles
    /\ ret = NoValue
    /\ NoRun

CallParseTextgrid ==
    /\ pc = "call"
    /\ pc' = "done"
    /\ ret' = parse_textgrid(Document(args))
    /\ UNCHANGED <<args, run>>

NextParse == CallParseTextgrid

SpecParse == InitParse /\ [][NextParse]_vars

\* C28: for a well-formed document parse_textgrid returns one entry per
\* interval of the phones tier, in order, each with the start, end and phone
\* of its interval; the lines before the tier, the tier's header and the
\* lines of a later tier give no entry.
C28_OneEntryPerInterval ==
    pc = "done" =>
        /\ Len(ret.intervals) = Len(args.intervals)
        /\ \A k \in DOMAIN ret.intervals :
              /\ DOMAIN ret.intervals[k] = {"start", "end", "phone"}
              /\ ret.intervals[k].start = EndOf(args.intervals, k - 1)
              /\ ret.intervals[k].end = EndOf(args.intervals, k)
              /\ ret.intervals[k].phone = args.intervals[k].phone

-----------------------------------------------------------------------------
\* the calls of SpecSimilarity that take the distance path: matrices of width
\* 13 or 39 with at least MIN_FRAMES frames and std_ratio of at least 0.5
OnDistancePath ==
    /\ pc = "done"
    /\ WellFormed(MatrixOf(args.ref_mfcc))
    /\ NFrames(MatrixOf(args.ref_mfcc)) >= MIN_FRAMES
    /\ NFrames(MatrixOf(args.user_mfcc)) >= MIN_FRAMES
    /\ StdRatio(MatrixOf(args.ref_mfcc), MatrixOf(args.user_mfcc)) >= STD_THRESHOLD

\* 1 / (1 + meanDistance) of two matrices on the distance path
UnpenalizedSimilarity(ref_mfcc, user_mfcc) ==
    LET pair == AlignedPair(ref_mfcc, user_mfcc)
    IN  IF pair = "error" THEN 0
        ELSE (ONE * ONE) \div (ONE + MeanFrameDistance(pair[1], pair[2]))

\* the factor 1 - (1 - stdRatio) * 0.3 below stdRatio 1.0, and 1 from there on
PenaltyFactor(stdRatio) ==
    IF stdRatio < ONE THEN ONE - ((ONE - stdRatio) * 300) \div ONE ELSE ONE

\* the similarity is the unpenalized one times a factor in [0.85, 1]
PenalizedBy(unpenalized, factor, similarity) ==
    /\ factor \in 850 .. ONE
    /\ similarity = (unpenalized * factor) \div ONE
    /\ similarity <= unpenalized
    /\ similarity >= (unpenalized * 850) \div ONE

\* C29: on the distance path the similarity 1 / (1 + meanDistance) is
\* multiplied by 1 - (1 - stdRatio) * 0.3 exactly when stdRatio < 1.0 and is
\* returned as it is otherwise; the factor lies in [0.85, 1], so the returned
\* similarity never exceeds 1 / (1 + meanDistance) and is at least 85% of it.
C29_StdPenaltyFactor ==
    OnDistancePath =>
        PenalizedBy(UnpenalizedSimilarity(MatrixOf(args.ref_mfcc), MatrixOf(args.user_mfcc)),
                    PenaltyFactor(StdRatio(MatrixOf(args.ref_mfcc), MatrixOf(args.user_mfcc))),
                    ret)

\* a user matrix of about three quarters of the reference's deviation: the
\* factor is 0.925 and the similarity is reduced
C29_Witness ==
    /\ OnDistancePath
    /\ StdRatio(MatrixOf(args.ref_mfcc), MatrixOf(args.user_mfcc)) = 748
    /\ PenalizedBy(UnpenalizedSimilarity(MatrixOf(args.ref_mfcc), MatrixOf(args.user_mfcc)),
                   925, ret)
    /\ 0 < ret
    /\ ret < UnpenalizedSimilarity(MatrixOf(args.ref_mfcc), MatrixOf(args.user_mfcc))

-----------------------------------------------------------------------------
(* textgrid_comparator.py : comprehensive_analysis.  The main thread submits *)
(* compare_textgrids and analyze_pitch_similarity to an executor of two      *)
(* workers and takes their results.  pc holds the position of the main       *)
(* thread and of the two tasks; locals holds the files, the locals of the    *)
(* tasks, the paths each task has read and written, the futures and the task *)
(* that finished first.  A step of a task is one access to a file.           *)

\* future.result() returns once the task has finished
FutureAlwaysReady(task_pc) == TRUE

FutureReady(task_pc) == task_pc = "done"

REF_PITCH_PATH == "pitch_data/reference/pitch.json"

USER_PITCH_PATH == "pitch_data/user/pitch.json"

SEGMENTS_PATH == "pitch_data/segments.json"

RESULT_PATH == "comparison_result.json"

NoFile == [raised |-> "FileNotFoundError", value |-> <<>>]

\* a future whose task has not finished
Pending == [raised |-> "pending", value |-> <<>>]

MaxAnalysisSegments == 1

AnalysisDocuments ==
    {[shape |-> "tier", intervals |-> DamagedIntervals],
     [shape |-> "tier", intervals |-> <<PhoneInterval("a", 200)>>],
     [shape |-> "headless", intervals |-> DamagedIntervals]}

\* the documents, what parselmouth makes of the two audio files (the
\* reference audio is None when the reference comes from S3), the segments
AnalysisInputs ==
    [reference_textgrid : AnalysisDocuments, user_textgrid : AnalysisDocuments,
     reference_audio : BOOLEAN,
     segments : SeqsUpTo(PitchSegmentChoices, MaxAnalysisSegments)]

AnalysisSegments(inputs) == [i \in DOMAIN inputs.segments |-> PitchSegment(i)]

AnalysisFiles(inputs) ==
    [path \in {"reference.TextGrid", "user.TextGrid", "reference_audio", "user_audio",
               REF_PITCH_PATH, USER_PITCH_PATH, SEGMENTS_PATH, RESULT_PATH} |->
        CASE path = "reference.TextGrid" -> Document(inputs.reference_textgrid)
          [] path = "user.TextGrid" -> Document(inputs.user_textgrid)
          [] path = "reference_audio" ->
                IF inputs.reference_audio
                THEN Ok(PitchTrack([i \in DOMAIN inputs.segments |->
                                       inputs.segments[i].ref_voiced], 1))
                ELSE [raised |-> "PraatError", value |-> <<>>]
          [] path = "user_audio" ->
                Ok(PitchTrack([i \in DOMAIN inputs.segments |->
                                  inputs.segments[i].user_voiced], 2))
          [] OTHER -> NoFile]

InitAnalysis ==
    /\ pc = [main |-> "submit_textgrid", textgrid |-> "idle", pitch |-> "idle"]
    /\ args \in AnalysisInputs
    /\ ret = NoValue
    /\ locals = [files |-> AnalysisFiles(args),
                 reads |-> [textgrid |-> {}, pitch |-> {}],
                 writes |-> [textgrid |-> {}, pitch |-> {}],
                 ref_data |-> NoFile, user_data |-> NoFile,
                 ref_pitch_data |-> NoFile, user_pitch_data |-> NoFile,
                 textgrid_results |-> Pending, pitch_results |-> Pending,
                 first_done |-> "none"]
    /\ webhook = <<>>

\* the task reads the file at path
Reads(task, path) == [locals.reads EXCEPT ![task] = @ \cup {path}]

\* the task writes the file at path
Writes(task, path) == [locals.writes EXCEPT ![task] = @ \cup {path}]

FirstDone(task) == IF locals.first_done = "none" THEN task ELSE locals.first_done

\* line 295
SubmitTextgrid ==
    /\ pc.main = "submit_textgrid"
    /\ pc' = [pc EXCEPT !.main = "submit_pitch", !.textgrid = "parse_reference"]
    /\ UNCHANGED <<args, ret, locals, webhook>>

\* line 296
SubmitPitch ==
    /\ pc.main = "submit_pitch"
    /\ pc' = [pc EXCEPT !.main = "textgrid_result", !.pitch = "create_reference"]
    /\ UNCHANGED <<args, ret, locals, webhook>>

\* compare_textgrids, line 106
ParseReference ==
    /\ pc.textgrid = "parse_reference"
    /\ pc' = [pc EXCEPT !.textgrid = "parse_user"]
    /\ locals' = [locals EXCEPT !.ref_data = locals.files["reference.TextGrid"],
                                !.reads = Reads("textgrid", "reference.TextGrid")]
    /\ UNCHANGED <<args, ret, webhook>>

\* compare_textgrids, lines 107-134
ParseUserAndCompare ==
    /\ pc.textgrid = "parse_user"
    /\ pc' = [pc EXCEPT !.textgrid = "done"]
    /\ locals' = [locals EXCEPT
                    !.user_data = locals.files["user.TextGrid"],
                    !.reads = Reads("textgrid", "user.TextGrid"),
                    !.textgrid_results =
                        compare_textgrids(locals.ref_data, locals.files["user.TextGrid"]),
                    !.first_done = FirstDone("textgrid")]
    /\ UNCHANGED <<args, ret, webhook>>

\* analyze_pitch_similarity, line 343: create_reference_pitch_json writes the
\* pitch of the reference audio, or returns "" when parselmouth raises
CreateReferencePitch ==
    /\ pc.pitch = "create_reference"
    /\ pc' = [pc EXCEPT !.pitch = "create_user"]
    /\ LET sound == locals.files["reference_audio"]
       IN  locals' = [locals EXCEPT
                        !.reads = Reads("pitch", "reference_audio"),
                        !.files = IF sound.raised = "no"
                                  THEN [@ EXCEPT ![REF_PITCH_PATH] = sound] ELSE @,
                        !.writes = IF sound.raised = "no"
                                   THEN Writes("pitch", REF_PITCH_PATH) ELSE @]
    /\ UNCHANGED <<args, ret, webhook>>

\* lines 346-350: the pitch of the user's audio and the segments are written
CreateUserPitch ==
    /\ pc.pitch = "create_user"
    /\ pc' = [pc EXCEPT !.pitch = "load_reference"]
    /\ locals' = [locals EXCEPT
                    !.reads = Reads("pitch", "user_audio"),
                    !.files = [@ EXCEPT ![USER_PITCH_PATH] = locals.files["user_audio"],
                                        ![SEGMENTS_PATH] = Ok(AnalysisSegments(args))],
                    !.writes = [@ EXCEPT !["pitch"] = @ \cup {USER_PITCH_PATH, SEGMENTS_PATH}]]
    /\ UNCHANGED <<args, ret, webhook>>

\* line 353; what load_pitch_data raises ends the task by lines 392-394
LoadReferencePitch ==
    /\ pc.pitch = "load_reference"
    /\ LET loaded == locals.files[REF_PITCH_PATH]
       IN  IF loaded.raised = "no"
           THEN /\ pc' = [pc EXCEPT !.pitch = "load_user"]
                /\ locals' = [locals EXCEPT !.ref_pitch_data = loaded,
                                            !.reads = Reads("pitch", REF_PITCH_PATH)]
           ELSE /\ pc' = [pc EXCEPT !.pitch = "done"]
                /\ locals' = [locals EXCEPT
                                !.reads = Reads("pitch", REF_PITCH_PATH),
                                !.pitch_results =
                                    Ok(analyze_pitch_similarity(loaded, loaded, <<>>, <<>>)),
                                !.first_done = FirstDone("pitch")]
    /\ UNCHANGED <<args, ret, webhook>>

\* lines 354-390
LoadUserPitchAndCompare ==
    /\ pc.pitch = "load_user"
    /\ pc' = [pc EXCEPT !.pitch = "done"]
    /\ locals' = [locals EXCEPT
                    !.user_pitch_data = locals.files[USER_PITCH_PATH],
                    !.reads = Reads("pitch", USER_PITCH_PATH),
                    !.pitch_results =
                        Ok(analyze_pitch_similarity(
                               locals.ref_pitch_data, locals.files[USER_PITCH_PATH],
                               AnalysisSegments(args),
                               [i \in DOMAIN args.segments |-> args.segments[i].fastdtw])),
                    !.first_done = FirstDone("pitch")]
    /\ UNCHANGED <<args, ret, webhook>>

\* line 298: textgrid_future.result() returns the result or raises what the
\* task raised; the with block is then left once both tasks have finished
TakeTextgridResult ==
    /\ pc.main = "textgrid_result"
    /\ FutureReady(pc.textgrid)
    /\ pc' = [pc EXCEPT !.main = IF locals.textgrid_results.raised = "no"
                                 THEN "pitch_result" ELSE "shutdown"]
    /\ UNCHANGED <<args, ret, locals, webhook>>

\* line 299: pitch_future.result()
TakePitchResult ==
    /\ pc.main = "pitch_result"
    /\ FutureReady(pc.pitch)
    /\ pc' = [pc EXCEPT !.main = IF locals.pitch_results.raised = "no"
                                 THEN "build" ELSE "shutdown"]
    /\ UNCHANGED <<args, ret, locals, webhook>>

\* the exit of the with block on an exception: executor.shutdown(wait=True)
RaiseAfterShutdown ==
    /\ pc.main = "shutdown"
    /\ FutureReady(pc.textgrid)
    /\ FutureReady(pc.pitch)
    /\ pc' = [pc EXCEPT !.main = "raised"]
    /\ ret' = [raised |-> IF locals.textgrid_results.raised # "no"
                          THEN locals.textgrid_results.raised
                          ELSE locals.pitch_results.raised,
               value |-> <<>>]
    /\ UNCHANGED <<args, locals, webhook>>

\* lines 302-323: the combined result and its file
BuildResult ==
    /\ pc.main = "build"
    /\ pc' = [pc EXCEPT !.main = "done"]
    /\ LET textgrid_results == locals.textgrid_results.value
           pitch_results    == locals.pitch_results.value
           comprehensive_result ==
               [textgrid_analysis |-> textgrid_results,
                pitch_analysis |-> pitch_results,
                overall_scores |->
                   [pronunciation_score |-> textgrid_results.pronunciation_accuracy * 100,
                    timing_score |-> textgrid_results.timing_accuracy * 100,
                    pitch_score |-> pitch_results.pitch_similarity * 100]]
       IN  /\ ret' = Ok(comprehensive_result)
           /\ locals' = [locals EXCEPT !.files[RESULT_PATH] = Ok(comprehensive_result)]
    /\ UNCHANGED <<args, webhook>>

NextAnalysis ==
    \/ SubmitTextgrid
    \/ SubmitPitch
    \/ ParseReference
    \/ ParseUserAndCompare
    \/ CreateReferencePitch
    \/ CreateUserPitch
    \/ LoadReferencePitch
    \/ LoadUserPitchAndCompare
    \/ TakeTextgridResult
    \/ TakePitchResult
    \/ RaiseAfterShutdown
    \/ BuildResult

SpecAnalysis == InitAnalysis /\ [][NextAnalysis]_vars

\* what the two calls return one after the other on the inputs of the run
SequentialTextgrid ==
    compare_textgrids(Document(args.reference_textgrid), Document(args.user_textgrid))

SequentialPitch ==
    LET ref_loaded == AnalysisFiles(args)["reference_audio"]
    IN  IF ref_loaded.raised # "no"
        THEN analyze_pitch_similarity(NoFile, NoFile, <<>>, <<>>)
        ELSE analyze_pitch_similarity(ref_loaded, AnalysisFiles(args)["user_audio"],
                                      AnalysisSegments(args),
                                      [i \in DOMAIN args.segments |-> args.segments[i].fastdtw])

\* C24: the two tasks of comprehensive_analysis read disjoint files and write
\* disjoint files, neither reads a file the other writes; the main thread has
\* a result (or the exception of the comparison) only when both tasks have
\* finished, and the combined result is the one the two calls give one after
\* the other, whatever the interleaving and whichever task finished first.
C24_ParallelTasksIndependent ==
    /\ locals.reads.textgrid \cap locals.reads.pitch = {}
    /\ locals.writes.textgrid \cap locals.writes.pitch = {}
    /\ locals.reads.textgrid \cap locals.writes.pitch = {}
    /\ locals.reads.pitch \cap locals.writes.textgrid = {}
    /\ ret # NoValue =>
          /\ pc.textgrid = "done"
          /\ pc.pitch = "done"
          /\ locals.textgrid_results = SequentialTextgrid
          /\ locals.pitch_results = Ok(SequentialPitch)
          /\ ret.raised = SequentialTextgrid.raised
          /\ ret.raised = "no" =>
                /\ ret.value.textgrid_analysis = SequentialTextgrid.value
                /\ ret.value.pitch_analysis = SequentialPitch
                /\ ret.value.overall_scores =
                      [pronunciation_score |->
                           SequentialTextgrid.value.pronunciation_accuracy * 100,
                       timing_score |-> SequentialTextgrid.value.timing_accuracy * 100,
                       pitch_score |-> SequentialPitch.pitch_similarity * 100]

\* the pitch task finished before the comparison of the documents, and the
\* combined result holds both results
C24_Witness ==
    /\ pc.main = "done"
    /\ locals.first_done = "pitch"
    /\ args.reference_textgrid = [shape |-> "tier", intervals |-> DamagedIntervals]
    /\ args.user_textgrid = [shape |-> "tier", intervals |-> <<PhoneInterval("a", 200)>>]
    /\ args.reference_audio
    /\ args.segments = <<[ref_voiced |-> 6, user_voiced |-> 7, fastdtw |-> Ok(1500)]>>
    /\ ret.value.overall_scores =
          [pronunciation_score |-> 50000, timing_score |-> 66700, pitch_score |-> 78600]
    /\ locals.writes.pitch = {REF_PITCH_PATH, USER_PITCH_PATH, SEGMENTS_PATH}
    /\ locals.reads.textgrid = {"reference.TextGrid", "user.TextGrid"}

-----------------------------------------------------------------------------
(* The files of one job of the pronunciation service: analyze_voice (after
   line 70 has recorded the job as processing) with download_from_s3, then
   the scoring run and its finally clause *)

JOB_FOLDER == "/tmp/{job_id}"

AUDIO_PATH == "/tmp/{job_id}/user_audio.wav"

SHARED_FILE_PATH == "~/shared_data/user/{job_id}.wav"

\* what the calls of the job's environment do: parse_s3_url accepts the URL or
\* not, and the download, the copy, the scoring, the request of the completed
\* notification and shutil.rmtree succeed or raise
JobFileInputs ==
    [url_accepted : BOOLEAN, download_file : {"ok", "ClientError"},
     copy2 : {"ok", "OSError"}, scoring : {"ok", "Exception"},
     post : {"ok", "RequestException"}, rmtree : {"ok", "OSError"}]

InitJobFiles ==
    /\ pc = "parse_s3_url"
    /\ args \in JobFileInputs
    /\ ret = NoValue
    /\ locals = [files |-> {}, job_status |-> "processing", scheduled |-> FALSE]
    /\ webhook = <<>>

\* analyze_voice, lines 87-109: the except clauses of the request
RejectRequest(status_code) ==
    /\ pc' = "rejected"
    /\ ret' = [status_code |-> status_code]
    /\ locals' = [locals EXCEPT !.job_status = "failed"]

\* download_from_s3, line 130
ParseS3Url ==
    /\ pc = "parse_s3_url"
    /\ IF args.url_accepted
       THEN pc' = "mkdir" /\ UNCHANGED <<ret, locals>>
       ELSE RejectRequest(400)
    /\ UNCHANGED <<args, webhook>>

\* lines 132-133
MakeJobFolder ==
    /\ pc = "mkdir"
    /\ pc' = "download_file"
    /\ locals' = [locals EXCEPT !.files = @ \cup {JOB_FOLDER}]
    /\ UNCHANGED <<args, ret, webhook>>

\* lines 135-136
DownloadFile ==
    /\ pc = "download_file"
    /\ IF args.download_file = "ok"
       THEN /\ pc' = "copy2"
            /\ locals' = [locals EXCEPT !.files = @ \cup {AUDIO_PATH}]
            /\ UNCHANGED ret
       ELSE RejectRequest(500)
    /\ UNCHANGED <<args, webhook>>

\* lines 138-144, then the add_task and the answer of lines 79-85
BackupAndSchedule ==
    /\ pc = "copy2"
    /\ IF args.copy2 = "ok"
       THEN /\ pc' = "pipeline"
            /\ ret' = [status_code |-> 200]
            /\ locals' = [locals EXCEPT !.files = @ \cup {SHARED_FILE_PATH},
                                        !.scheduled = TRUE]
       ELSE RejectRequest(500)
    /\ UNCHANGED <<args, webhook>>

\* analyze_pronunciation_pipeline up to its finally clause: the scoring, the
\* completed notification and the failed notification of the except clause
RunScoring ==
    /\ pc = "pipeline"
    /\ pc' = "finally"
    /\ webhook' =
          IF args.scoring # "ok" THEN <<[status |-> "failed"]>>
          ELSE IF args.post # "ok" THEN <<[status |-> "completed"], [status |-> "failed"]>>
          ELSE <<[status |-> "completed"]>>
    /\ UNCHANGED <<args, ret, locals>>

\* lines 436-442: shutil.rmtree of the job folder; its failure is printed
RemoveJobFolder ==
    /\ pc = "finally"
    /\ pc' = "done"
    /\ locals' = [locals EXCEPT !.files = IF args.rmtree = "ok"
                                          THEN @ \ {JOB_FOLDER, AUDIO_PATH} ELSE @]
    /\ UNCHANGED <<args, ret, webhook>>

NextJobFiles ==
    \/ ParseS3Url
    \/ MakeJobFolder
    \/ DownloadFile
    \/ BackupAndSchedule
    \/ RunScoring
    \/ RemoveJobFolder

SpecJobFiles == InitJobFiles /\ [][NextJobFiles]_vars

\* C22: when a job has ended, by the answer to a request that schedules no
\* scoring run or by the end of the scoring run, whatever failed on the way,
\* none of the files and directories created for it remains.
C22_NoJobFileRemains ==
    pc \in {"rejected", "done"} => locals.files = {}

-----------------------------------------------------------------------------
(* The jobs of the API server: analyze_voice, process_s3_to_webhook and the
   files process_user_audio_with_s3_reference reads and writes.  The handler
   and the background task are coroutines without a suspension point, so the
   event loop runs one of them at a time, from its first line to its last. *)

MaxServerJobs == 2

MaxSecond == 1

ServerJobIds == 1..MaxServerJobs

\* s3://bucket/key, the https form, s3://bucket without key, no S3 URL
UrlForms == {"s3://bucket/key", "https://bucket.s3.amazonaws.com/key", "s3://bucket", "audio.mp4"}

\* api_server.py, lines 145-155
extract_s3_key_from_url(s3_url) ==
    CASE s3_url = "s3://bucket/key" -> Ok("key")
      [] s3_url = "s3://bucket" -> Raise("IndexError")
      [] s3_url = "https://bucket.s3.amazonaws.com/key" -> Ok("key")
      [] OTHER -> Raise("ValueError")

\* s3_downloader.py, lines 18-35
parse_s3_url(s3_url) ==
    IF s3_url \in {"s3://bucket/key", "s3://bucket"} THEN Ok(<<"bucket", "key">>)
    ELSE Raise("ValueError")

ServerRequests == [s3_audio_url : UrlForms, reference_urls : BOOLEAN]

\* the paths: a name and the job id or the second of the start time in it
INPUT_PATH(job_id) == <<"/tmp/{job_id}_input.mp4", job_id>>

TEMP_AUDIO_PATH(second) == <<"/tmp/user_audio_{start_time}.mp4", second>>

CLEANED_PATH(second) == <<"../shared_data/user/processed/cleaned_user_audio_{start_time}.wav", second>>

LAB_PATH(second) == <<"../shared_data/user/lab/cleaned_user_audio_{start_time}.lab", second>>

FixedPath(name) == <<name, 0>>

REFERENCE_TEXTGRID_PATH == FixedPath("../shared_data/temp_reference/reference.TextGrid")

REFERENCE_PITCH_JSON_PATH == FixedPath("../shared_data/temp_reference/reference_pitch.json")

MFA_WAV_PATH == FixedPath("../shared_data/mfa_corpus/user.wav")

MFA_LAB_PATH == FixedPath("../shared_data/mfa_corpus/user.lab")

USER_TEXTGRID_PATH == FixedPath("../shared_data/mfa_output/user.TextGrid")

FINAL_RESULT_PATH == FixedPath("../shared_data/final_result_s3.json")

ServerPaths ==
    {INPUT_PATH(j) : j \in ServerJobIds}
    \cup UNION {{TEMP_AUDIO_PATH(t), CLEANED_PATH(t), LAB_PATH(t)} : t \in 0..MaxSecond}
    \cup {REFERENCE_TEXTGRID_PATH, REFERENCE_PITCH_JSON_PATH, MFA_WAV_PATH, MFA_LAB_PATH,
          USER_TEXTGRID_PATH, FINAL_RESULT_PATH}
    \cup {FixedPath(name) : name \in {REF_PITCH_PATH, USER_PITCH_PATH, SEGMENTS_PATH, RESULT_PATH}}

\* the stages of process_user_audio_with_s3_reference, main.py lines 386-479
N_STAGES == 7

\* the files stage k of a run started in the second writes
StageWrites(k, second) ==
    CASE k = 1 -> {TEMP_AUDIO_PATH(second)}
      [] k = 2 -> {CLEANED_PATH(second)}
      [] k = 3 -> {LAB_PATH(second)}
      [] k = 4 -> {REFERENCE_TEXTGRID_PATH, REFERENCE_PITCH_JSON_PATH}
      [] k = 5 -> {MFA_WAV_PATH, MFA_LAB_PATH, USER_TEXTGRID_PATH}
      [] k = 6 -> {FixedPath(USER_PITCH_PATH), FixedPath(SEGMENTS_PATH), FixedPath(RESULT_PATH)}
      [] OTHER -> {FINAL_RESULT_PATH}

\* the files stage k reads, after its own writes
StageReads(k, second) ==
    CASE k = 2 -> {TEMP_AUDIO_PATH(second)}
      [] k = 3 -> {CLEANED_PATH(second)}
      [] k = 4 -> {REFERENCE_PITCH_JSON_PATH}
      [] k = 5 -> {CLEANED_PATH(second), LAB_PATH(second), MFA_WAV_PATH, MFA_LAB_PATH}
      [] k = 6 -> {REFERENCE_TEXTGRID_PATH, USER_TEXTGRID_PATH, CLEANED_PATH(second),
                   FixedPath(REF_PITCH_PATH)}
      [] OTHER -> {}

\* the files, the reads and the overwritten paths after stage k of the run of
\* job_id, for a file system in which files[path] is the job that wrote the
\* file at path, 0 where there is none
AfterStage(state, job_id, second, k) ==
    LET files == [path \in ServerPaths |->
                     IF path \in StageWrites(k, second) THEN job_id ELSE state.files[path]]
    IN  [files |-> files,
         reads |-> state.reads \cup {<<path, files[path]>> : path \in StageReads(k, second)},
         overwritten |-> state.overwritten
                           \cup {path \in StageWrites(k, second) :
                                    state.files[path] \notin {0, job_id}}]

RECURSIVE RunStages(_, _, _, _, _)
\* stages k..last of the run, in their order
RunStages(state, job_id, second, k, last) ==
    IF k > last THEN state
    ELSE RunStages(AfterStage(state, job_id, second, k), job_id, second, k + 1, last)

\* line 190 with a dict.get in place of the subscript
ResultGetAnalysisResults(result) == Ok(result)

\* line 190: result["analysis_results"]; the key is only in the dict of line 484
ResultAnalysisResults(result) == IF result = "success" THEN Ok(result) ELSE Raise("KeyError")

InitServer ==
    /\ pc = [request |-> 1, running |-> 0, at |-> "idle"]
    /\ args \in [ServerJobIds -> ServerRequests]
    /\ ret = [job_id \in ServerJobIds |-> 0]
    /\ locals = [job_status |-> [job_id \in ServerJobIds |-> "none"],
                 tasks |-> <<>>,
                 files |-> [path \in ServerPaths |-> 0],
                 reads |-> [job_id \in ServerJobIds |-> {}],
                 overwritten |-> [job_id \in ServerJobIds |-> {}],
                 result |-> [job_id \in ServerJobIds |-> "none"],
                 analysis_results |-> 0,
                 exception |-> "",
                 clock |-> 0]
    /\ webhook = <<>>

\* lines 68-111: the request handler, for the request with the next job id
AnalyzeVoice ==
    /\ pc.running = 0
    /\ pc.request \in ServerJobIds
    /\ LET job_id == pc.request
           s3_key == extract_s3_key_from_url(args[job_id].s3_audio_url)
       IN  /\ pc' = [pc EXCEPT !.request = @ + 1]
           /\ IF s3_key.raised = "no"
              THEN /\ locals' = [locals EXCEPT !.job_status[job_id] = "processing",
                                               !.tasks = Append(@, job_id)]
                   /\ ret' = [ret EXCEPT ![job_id] = 200]
              ELSE /\ ret' = [ret EXCEPT ![job_id] = 400]
                   /\ UNCHANGED locals
    /\ UNCHANGED <<args, webhook>>

\* the event loop starts the next background task
StartTask ==
    /\ pc.running = 0
    /\ locals.tasks # <<>>
    /\ pc' = [pc EXCEPT !.running = Head(locals.tasks), !.at = "download_file"]
    /\ locals' = [locals EXCEPT !.tasks = Tail(@), !.exception = "", !.analysis_results = 0]
    /\ UNCHANGED <<args, ret, webhook>>

\* the exception is caught by line 237
Caught(name) ==
    /\ pc' = [pc EXCEPT !.at = "except"]
    /\ locals' = [locals EXCEPT !.exception = name]

\* lines 165-166
DownloadInput ==
    /\ pc.at = "download_file"
    /\ \/ /\ pc' = [pc EXCEPT !.at = "validate"]
          /\ locals' = [locals EXCEPT !.files[INPUT_PATH(pc.running)] = pc.running]
       \/ Caught("ClientError")
    /\ UNCHANGED <<args, ret, webhook>>

\* lines 170-171
ValidateReferenceUrls ==
    /\ pc.at = "validate"
    /\ IF args[pc.running].reference_urls
       THEN pc' = [pc EXCEPT !.at = "pipeline"] /\ UNCHANGED locals
       ELSE Caught("ValueError")
    /\ UNCHANGED <<args, ret, webhook>>

\* lines 179-184, main.py lines 346-508: the run raises before its try block,
\* or raises in stage completed + 1 and returns success False, or returns
\* success True after the last stage
RunPipeline ==
    /\ pc.at = "pipeline"
    /\ \E second \in {locals.clock, Min(locals.clock + 1, MaxSecond)} :
       \E raises_outside \in BOOLEAN :
       \E completed \in 0..N_STAGES :
          LET job_id == pc.running
              url    == parse_s3_url(args[job_id].s3_audio_url)
              state  == RunStages([files |-> locals.files, reads |-> locals.reads[job_id],
                                   overwritten |-> locals.overwritten[job_id]],
                                  job_id, second, 1, completed)
          IN  /\ url.raised # "no" => completed = 0
              /\ raises_outside => completed = 0
              /\ IF raises_outside
                 THEN /\ pc' = [pc EXCEPT !.at = "except"]
                      /\ locals' = [locals EXCEPT !.result[job_id] = "raised",
                                                  !.exception = "OSError",
                                                  !.clock = second]
                 ELSE /\ pc' = [pc EXCEPT !.at = "record"]
                      /\ locals' = [locals EXCEPT
                                       !.result[job_id] = IF completed = N_STAGES
                                                          THEN "success" ELSE "failure",
                                       !.files = state.files,
                                       !.reads[job_id] = state.reads,
                                       !.overwritten[job_id] = state.overwritten,
                                       !.clock = second]
    /\ UNCHANGED <<args, ret, webhook>>

\* lines 187-191
RecordCompleted ==
    /\ pc.at = "record"
    /\ IF ResultAnalysisResults(locals.result[pc.running]).raised = "no"
       THEN /\ pc' = [pc EXCEPT !.at = "read_result"]
            /\ locals' = [locals EXCEPT !.job_status[pc.running] = "completed"]
       ELSE Caught("KeyError")
    /\ UNCHANGED <<args, ret, webhook>>

\* lines 194-217: the result is read back from the file; when that fails the
\* returned result is taken
ReadResultFile ==
    /\ pc.at = "read_result"
    /\ pc' = [pc EXCEPT !.at = "send"]
    /\ \/ locals' = [locals EXCEPT
                        !.analysis_results = locals.files[FINAL_RESULT_PATH],
                        !.reads[pc.running] =
                            @ \cup {<<FINAL_RESULT_PATH, locals.files[FINAL_RESULT_PATH]>>}]
       \/ locals' = [locals EXCEPT !.analysis_results = pc.running]
    /\ UNCHANGED <<args, ret, webhook>>

\* lines 220-235: send_webhook posts once and returns whether it succeeded
SendCompleted ==
    /\ pc.at = "send"
    /\ pc' = [pc EXCEPT !.at = "finally"]
    /\ webhook' = Append(webhook, [job_id |-> pc.running, status |-> "completed",
                                   analysis_results |-> locals.analysis_results])
    /\ UNCHANGED <<args, ret, locals>>

\* lines 237-261
RecordFailedAndSend ==
    /\ pc.at = "except"
    /\ pc' = [pc EXCEPT !.at = "finally"]
    /\ locals' = [locals EXCEPT !.job_status[pc.running] = "failed"]
    /\ webhook' = Append(webhook, [job_id |-> pc.running, status |-> "failed",
                                   analysis_results |-> 0])
    /\ UNCHANGED <<args, ret>>

\* lines 263-267
RemoveInput ==
    /\ pc.at = "finally"
    /\ pc' = [pc EXCEPT !.running = 0, !.at = "idle"]
    /\ locals' = [locals EXCEPT !.files[INPUT_PATH(pc.running)] = 0]
    /\ UNCHANGED <<args, ret, webhook>>

NextServer ==
    \/ AnalyzeVoice
    \/ StartTask
    \/ DownloadInput
    \/ ValidateReferenceUrls
    \/ RunPipeline
    \/ RecordCompleted
    \/ ReadResultFile
    \/ SendCompleted
    \/ RecordFailedAndSend
    \/ RemoveInput

SpecServer == InitServer /\ [][NextServer]_vars

\* C23: no path one job wrote is overwritten or read by the other job, and the
\* result in a job's notification is the one that job wrote.
C23_JobsShareNoFile ==
    /\ \A job_id \in ServerJobIds :
          /\ locals.overwritten[job_id] = {}
          /\ \A read \in locals.reads[job_id] : read[2] \in {0, job_id}
    /\ \A i \in DOMAIN webhook :
          webhook[i].status = "completed" => webhook[i].analysis_results = webhook[i].job_id

\* the notifications sent for the job
NotificationsOf(job_id) == {i \in DOMAIN webhook : webhook[i].job_id = job_id}

\* the background task of the job has run to its end
TaskEnded(job_id) ==
    locals.job_status[job_id] \in {"completed", "failed"} /\ pc.running # job_id

\* the recorded status of a job from one state to the next
StatusStep(job_id) ==
    \/ locals'.job_status[job_id] = locals.job_status[job_id]
    \/ locals.job_status[job_id] = "none" /\ locals'.job_status[job_id] = "processing"
    \/ /\ locals.job_status[job_id] = "processing"
       /\ locals'.job_status[job_id] \in {"completed", "failed"}

StatusRecords(job_id) ==
    /\ extract_s3_key_from_url(args[job_id].s3_audio_url).raised # "no" =>
          /\ locals.job_status[job_id] = "none"
          /\ pc.running # job_id
          /\ \A i \in DOMAIN locals.tasks : locals.tasks[i] # job_id
          /\ NotificationsOf(job_id) = {}
          /\ ret[job_id] \in {0, 400}
    /\ locals.result[job_id] \in {"failure", "raised"} =>
          /\ locals.job_status[job_id] \in {"processing", "failed"}
          /\ TaskEnded(job_id) => locals.job_status[job_id] = "failed"
          /\ \A i \in NotificationsOf(job_id) : webhook[i].status = "failed"
    /\ \A i \in NotificationsOf(job_id) : webhook[i].status = locals.job_status[job_id]
    /\ TaskEnded(job_id) => Cardinality(NotificationsOf(job_id)) = 1

\* C30: the recorded status of a job goes from processing to completed or to
\* failed and then stays; a request with an invalid S3 URL gets no job entry,
\* no task and no notification; a job whose pipeline returned a failure or
\* raised is recorded failed, never completed, and is notified failed only;
\* every notification of a job carries the job's recorded status.
C30_JobStatus ==
    /\ [](\A job_id \in ServerJobIds : StatusRecords(job_id))
    /\ [][\A job_id \in ServerJobIds : StatusStep(job_id)]_vars

\* job 1, whose pipeline returned a failure, is recorded and notified failed;
\* job 2 is recorded and notified completed
C30_Witness ==
    /\ locals.result = <<"failure", "success">>
    /\ locals.job_status = <<"failed", "completed">>
    /\ TaskEnded(1) /\ TaskEnded(2)
    /\ Len(webhook) = 2
    /\ webhook[1].job_id = 1 /\ webhook[1].status = "failed"
    /\ webhook[2].job_id = 2 /\ webhook[2].status = "completed"

=============================================================================
